---------------------------- MODULE Spec2Model ----------------------------
(***************************************************************************)
(* Model of the convention-learning CRUD generator of                      *)
(* src/mcp-tools/04-generation/标准代码生成MCP服务器.py:                      *)
(* layer classifier, convention aggregator, convention resolver, template  *)
(* emitter and file placer.  Text is modelled as TLA+ strings, a file as   *)
(* the sequence of its lines, a path as a string with "/" separators.      *)
(***************************************************************************)
EXTENDS Integers, Sequences, FiniteSets, TLC

VARIABLES
    pc,         \* position of the server in the request it is handling
    fs,         \* the disk: [files : path -> lines, dirs : set of paths]
    req,        \* arguments of the tools/call request being handled
    pkg_name,   \* the handler's local variable package_name
    info,       \* project_info of the running request
    todo,       \* java files of the os.walk of the learning pass not yet visited
    units,      \* generated_files, as the ordered sequence of emitted units
    placed,     \* number of units _save_files_to_learned_structure has written
    saved,      \* saved_files, the path list being built
    hashPick,   \* per-process iteration order of the sets built so far
    served,     \* requests answered so far
    resp,       \* the last response
    hist,       \* history: what each visited file was recorded into, the disk before
                \* the request, the outcome of the first of two placer calls
    fin,        \* inputs of the function under study (function-level specifications)
    fout,       \* its result
    procs       \* the server processes placing side by side on one project root
                \* (SpecTwo), <<>> where the one server of the variables above runs

vars == <<pc, fs, req, pkg_name, info, todo, units, placed, saved, hashPick, served, resp, hist, fin, fout,
          procs>>

None == "None"

-----------------------------------------------------------------------------
(* Python str operations used by the program *)

UpperChars == "ABCDEFGHIJKLMNOPQRSTUVWXYZ"
LowerChars == "abcdefghijklmnopqrstuvwxyz"

Char(s, i) == SubSeq(s, i, i)

\* the lower-case letter of each upper-case letter
LowerOf == [c \in {Char(UpperChars, k) : k \in 1..Len(UpperChars)} |->
              Char(LowerChars, CHOOSE k \in 1..Len(UpperChars) : Char(UpperChars, k) = c)]

LowerChar(c) == IF c \in DOMAIN LowerOf THEN LowerOf[c] ELSE c

\* s.lower(), letter by letter (the halves of s in turn)
RECURSIVE Lower(_)
Lower(s) ==
    IF Len(s) <= 1 THEN LowerChar(s)
    ELSE Lower(SubSeq(s, 1, Len(s) \div 2)) \o Lower(SubSeq(s, Len(s) \div 2 + 1, Len(s)))

StartsWith(s, p) == Len(s) >= Len(p) /\ SubSeq(s, 1, Len(p)) = p

EndsWith(s, p) == Len(s) >= Len(p) /\ SubSeq(s, Len(s) - Len(p) + 1, Len(s)) = p

\* Python's  p in s
Contains(s, p) == \E i \in 1..(Len(s) - Len(p) + 1) : SubSeq(s, i, i + Len(p) - 1) = p

RECURSIVE LStrip(_)
LStrip(s) == IF s # "" /\ Char(s, 1) = " " THEN LStrip(SubSeq(s, 2, Len(s))) ELSE s

RECURSIVE RStrip(_)
RStrip(s) == IF s # "" /\ Char(s, Len(s)) = " " THEN RStrip(SubSeq(s, 1, Len(s) - 1)) ELSE s

Strip(s) == RStrip(LStrip(s))

\* the pieces of a \o b, given those of a and of b: the last piece of a goes on
\* in the first of b
JoinPieces(a, b) == SubSeq(a, 1, Len(a) - 1) \o <<a[Len(a)] \o b[1]>> \o Tail(b)

\* s.split(c) for a one-character separator: the pieces, empty ones kept
RECURSIVE Split(_, _)
Split(s, c) ==
    IF s = c THEN <<"", "">>
    ELSE IF Len(s) <= 1 THEN <<s>>
    ELSE JoinPieces(Split(SubSeq(s, 1, Len(s) \div 2), c),
                    Split(SubSeq(s, Len(s) \div 2 + 1, Len(s)), c))

\* s.split(): pieces between runs of blanks, empty ones dropped
SplitWs(s) == SelectSeq(Split(s, " "), LAMBDA w : w # "")

\* s.replace(a, b) for one-character a
RECURSIVE Replace(_, _, _)
Replace(s, a, b) ==
    IF s = a THEN b
    ELSE IF Len(s) <= 1 THEN s
    ELSE Replace(SubSeq(s, 1, Len(s) \div 2), a, b)
         \o Replace(SubSeq(s, Len(s) \div 2 + 1, Len(s)), a, b)

\* sep.join(parts)
RECURSIVE Join(_, _)
Join(parts, sep) ==
    IF parts = <<>> THEN ""
    ELSE IF Len(parts) = 1 THEN parts[1]
    ELSE parts[1] \o sep \o Join(Tail(parts), sep)

Range(xs) == {xs[i] : i \in 1..Len(xs)}

\* xs.count(e)
Count(xs, e) == Cardinality({i \in 1..Len(xs) : xs[i] = e})

\* list.append guarded by "if e not in xs"
AppendNew(xs, e) == IF e \in Range(xs) THEN xs ELSE Append(xs, e)

RECURSIVE AppendAllNew(_, _)
AppendAllNew(xs, es) ==
    IF es = <<>> THEN xs ELSE AppendAllNew(AppendNew(xs, Head(es)), Tail(es))

-----------------------------------------------------------------------------
(* Layer classifier *)

Layers == <<"entity", "repository", "service", "controller", "dto">>

LayerSet == Range(Layers)

RECURSIVE LayerOfAnnotations(_)
LayerOfAnnotations(annotations) ==
    IF annotations = <<>> THEN None
    ELSE LET annotation == Head(annotations) IN
         IF annotation \in {"@Entity", "@Table"} THEN "entity"
         ELSE IF annotation \in {"@Repository", "@Mapper"} THEN "repository"
         ELSE IF annotation \in {"@Service", "@Component"} THEN "service"
         ELSE IF annotation \in {"@Controller", "@RestController"} THEN "controller"
         ELSE LayerOfAnnotations(Tail(annotations))

LayerOfClassName(class_lower, annotations) ==
    IF EndsWith(class_lower, "entity") \/ EndsWith(class_lower, "model") THEN "entity"
    ELSE IF EndsWith(class_lower, "repository") \/ EndsWith(class_lower, "dao")
            \/ EndsWith(class_lower, "mapper") THEN "repository"
    ELSE IF EndsWith(class_lower, "service") \/ EndsWith(class_lower, "serviceimpl")
         THEN "service"
    ELSE IF EndsWith(class_lower, "controller") \/ EndsWith(class_lower, "resource")
         THEN "controller"
    ELSE IF EndsWith(class_lower, "dto") \/ EndsWith(class_lower, "vo")
            \/ EndsWith(class_lower, "request") \/ EndsWith(class_lower, "response")
         THEN "dto"
    ELSE LayerOfAnnotations(annotations)

\* the mutant of identify_layer that tries the type-name suffix before the namespace
identify_layer_suffix_first(package_name, class_name, annotations) ==
    LET package_lower == Lower(package_name)
        byName == LayerOfClassName(Lower(class_name), <<>>)
    IN  IF byName # None THEN byName
        ELSE IF Contains(package_lower, "entity") \/ Contains(package_lower, "model")
                \/ Contains(package_lower, "domain") THEN "entity"
        ELSE IF Contains(package_lower, "repository") \/ Contains(package_lower, "dao")
                \/ Contains(package_lower, "mapper") THEN "repository"
        ELSE IF Contains(package_lower, "service") THEN "service"
        ELSE IF Contains(package_lower, "controller") \/ Contains(package_lower, "web")
                \/ Contains(package_lower, "rest") THEN "controller"
        ELSE IF Contains(package_lower, "dto") \/ Contains(package_lower, "vo")
                \/ Contains(package_lower, "request") \/ Contains(package_lower, "response")
             THEN "dto"
        ELSE LayerOfAnnotations(annotations)

identify_layer(package_name, class_name, annotations) ==
    LET package_lower == Lower(package_name)
        class_lower == Lower(class_name)
    IN  IF Contains(package_lower, "entity") \/ Contains(package_lower, "model")
           \/ Contains(package_lower, "domain") THEN "entity"
        ELSE IF Contains(package_lower, "repository") \/ Contains(package_lower, "dao")
                \/ Contains(package_lower, "mapper") THEN "repository"
        ELSE IF Contains(package_lower, "service") THEN "service"
        ELSE IF Contains(package_lower, "controller") \/ Contains(package_lower, "web")
                \/ Contains(package_lower, "rest") THEN "controller"
        ELSE IF Contains(package_lower, "dto") \/ Contains(package_lower, "vo")
                \/ Contains(package_lower, "request") \/ Contains(package_lower, "response")
             THEN "dto"
        ELSE LayerOfClassName(class_lower, annotations)

-----------------------------------------------------------------------------
(* pathlib and the disk *)

\* Path.parent
Parent(p) ==
    LET parts == Split(p, "/") IN
    IF Len(parts) <= 2 THEN "/" ELSE Join(SubSeq(parts, 1, Len(parts) - 1), "/")

\* the "/" operator of Path: a "." operand is dropped, an absolute operand replaces
PathJoin(a, b) ==
    IF b = "." \/ b = "" THEN a
    ELSE IF StartsWith(b, "/") THEN b
    ELSE a \o "/" \o b

IsUnder(p, base) == p = base \/ StartsWith(p, base \o "/")

ValueError == "ValueError"

\* the mutant of RelativeTo that finds no path relative to the base
RelativeToNever(p, base) == ValueError

\* str(Path.relative_to(base)); ValueError when p is not under base
RelativeTo(p, base) ==
    IF p = base THEN "."
    ELSE IF StartsWith(p, base \o "/") THEN SubSeq(p, Len(base) + 2, Len(p))
    ELSE ValueError

\* p and every directory above it, up to the file-system root
SelfAndAncestors(p) ==
    LET parts == Split(p, "/") IN
    {Join(SubSeq(parts, 1, k), "/") : k \in 2..Len(parts)}

IsFile(disk, p) == p \in DOMAIN disk.files

IsDir(disk, p) == p \in disk.dirs

\* Path.exists
Exists(disk, p) == IsFile(disk, p) \/ IsDir(disk, p)

\* the mutant of MkdirFails with exist_ok = False: an existing directory is an error
MkdirFailsIfPresent(disk, p) == Exists(disk, p)

\* Path.mkdir(parents=True, exist_ok=True) raises iff a component is a regular file
MkdirFails(disk, p) == \E a \in SelfAndAncestors(p) : IsFile(disk, a)

\* the mutant of Mkdir that makes the directory anew: what it held is removed
MkdirAnew(disk, p) ==
    [files |-> [q \in {f \in DOMAIN disk.files : ~StartsWith(f, p \o "/")} |-> disk.files[q]],
     dirs |-> disk.dirs \cup SelfAndAncestors(p)]

Mkdir(disk, p) == [disk EXCEPT !.dirs = @ \cup SelfAndAncestors(p)]

\* str(e) of the OSError a failing mkdir raises
MkdirError(disk, p) ==
    IF IsFile(disk, p) THEN "[Errno 17] File exists: '" \o p \o "'"
    ELSE "[Errno 20] Not a directory: '" \o p \o "'"

\* open(p, 'w') raises iff p is a directory
OpenWFails(disk, p) == IsDir(disk, p)

\* str(e) of the IsADirectoryError
OpenWError(p) == "[Errno 21] Is a directory: '" \o p \o "'"

\* the mutant of place_failure that restores the disk of before the call
place_failure_rollback(disk, before) == before

\* the disk a failing placement leaves behind: nothing is undone
place_failure(disk, before) == disk

\* open(p, 'w').write(content): creates or truncates
WriteFile(disk, p, content) ==
    [disk EXCEPT !.files =
        [q \in DOMAIN disk.files \cup {p} |-> IF q = p THEN content ELSE disk.files[q]]]

\* the files os.walk(top) reaches
FilesUnder(disk, top) == {p \in DOMAIN disk.files : StartsWith(p, top \o "/")}

JavaFilesUnder(disk, top) == {p \in FilesUnder(disk, top) : EndsWith(p, ".java")}

-----------------------------------------------------------------------------
(* Convention aggregator *)

\* a byte that is not UTF-8, as it is written here in the text of a file
BadByte == "\\xe9"

\* the mutant of ReadFails of a file opened with errors='ignore'
ReadNeverFails(content) == FALSE

\* open(java_file, 'r', encoding='utf-8').read() raises UnicodeDecodeError
ReadFails(content) == \E i \in 1..Len(content) : Contains(content[i], BadByte)

EmptyPatterns == [dirs |-> <<>>, naming |-> <<>>, annotations |-> <<>>]

\* project_info as _analyze_project_structure first builds it
InitialProjectInfo(project_path) ==
    [base_package |-> "com.example",
     src_main_java |-> None,
     has_maven |-> FALSE,
     has_gradle |-> FALSE,
     existing_packages |-> <<>>,
     project_root |-> project_path,
     layer_patterns |-> [l \in LayerSet |-> EmptyPatterns],
     project_conventions |->
        [entity_suffix |-> "Entity",
         repository_suffix |-> "Repository",
         service_suffix |-> "Service",
         controller_suffix |-> "Controller",
         request_dto_pattern |-> "Request",
         response_dto_pattern |-> "Response"],
     framework_info |-> [orm |-> "unknown", web |-> "unknown", validation |-> "unknown"]]

\* the loop over the lines of one file: package, class name, annotations
RECURSIVE ScanLines(_, _)
ScanLines(lines, acc) ==
    IF lines = <<>> THEN acc
    ELSE
      LET line == Strip(Head(lines))
          a1 == IF StartsWith(line, "package ") /\ EndsWith(line, ";")
                THEN LET package_name == Strip(SubSeq(line, 9, Len(line) - 1)) IN
                     [acc EXCEPT !.package_name = package_name,
                                 !.existing_packages = AppendNew(@, package_name)]
                ELSE acc
          parts == SplitWs(line)
          a2 == IF (StartsWith(line, "public class ") \/ StartsWith(line, "public interface "))
                   /\ Len(parts) >= 3
                THEN [a1 EXCEPT !.class_name = Split(parts[3], "<")[1]]
                ELSE a1
          a3 == IF StartsWith(line, "@")
                THEN [a2 EXCEPT !.annotations = Append(@, Split(line, "(")[1])]
                ELSE a2
      IN  ScanLines(Tail(lines), a3)

\* any(...)-style tests of _analyze_framework_info
analyze_framework_info(annotations, content, framework_info) ==
    LET anns == Range(annotations)
        orm == IF anns \cap {"@Entity", "@Table", "@Id"} # {} THEN "jpa"
               ELSE IF "@Mapper" \in anns
                       \/ \E i \in 1..Len(content) : Contains(Lower(content[i]), "mybatis")
                    THEN "mybatis"
               ELSE framework_info.orm
        web == IF "@RestController" \in anns \/ "@Controller" \in anns
               THEN "spring-mvc" ELSE framework_info.web
        validation ==
               IF \E a \in anns : StartsWith(a, "@Valid") \/ StartsWith(a, "@NotNull")
                                  \/ StartsWith(a, "@NotBlank")
               THEN "javax.validation" ELSE framework_info.validation
    IN  [orm |-> orm, web |-> web, validation |-> validation]

\* the mutant of layers_recorded that records a file under every rule it matches
layers_recorded_every_rule(package_name, class_name, annotations) ==
    ({identify_layer(package_name, class_name, annotations),
      LayerOfClassName(Lower(class_name), <<>>)}
     \cup {LayerOfAnnotations(<<annotations[i]>>) : i \in 1..Len(annotations)}) \ {None}

\* the layers whose observation one file is added to: the one the classifier names
layers_recorded(package_name, class_name, annotations) ==
    LET layer == identify_layer(package_name, class_name, annotations) IN
    IF layer # None THEN {layer} ELSE {}

\* "if class_name not in naming: naming.append(class_name)"
RecordName(naming, class_name) == AppendNew(naming, class_name)

\* what the scan of a file's text extracts, given the packages seen before it
Scan(content, existing_packages) ==
    ScanLines(content, [package_name |-> None, class_name |-> None, annotations |-> <<>>,
                        existing_packages |-> existing_packages])

\* the layers the file is recorded into ("if package_name and class_name", "if layer")
RecordedInto(content) ==
    LET scan == Scan(content, <<>>) IN
    IF ReadFails(content) THEN {}
    ELSE IF scan.package_name \notin {None, ""} /\ scan.class_name \notin {None, ""}
    THEN layers_recorded(scan.package_name, scan.class_name, scan.annotations)
    ELSE {}

\* project_info after _learn_from_java_file(java_file, project_info)
learn_from_java_file(java_file, content, project_info) ==
    IF ReadFails(content) THEN project_info ELSE
    LET scan == Scan(content, project_info.existing_packages)
        seen == [project_info EXCEPT !.existing_packages = scan.existing_packages]
        into == RecordedInto(content)
        relative_dir == RelativeTo(Parent(java_file), project_info.src_main_java)
    IN  IF into = {} THEN seen
        ELSE [seen EXCEPT
                !.layer_patterns =
                    [l \in LayerSet |->
                        IF l \in into
                        THEN [dirs |-> AppendNew(@[l].dirs, relative_dir),
                              naming |-> RecordName(@[l].naming, scan.class_name),
                              annotations |-> AppendAllNew(@[l].annotations, scan.annotations)]
                        ELSE @[l]],
                !.framework_info =
                    analyze_framework_info(scan.annotations, content, @)]

-----------------------------------------------------------------------------
(* Convention resolver *)

\* the elements max(set(xs), key=xs.count) can return: those of greatest count
Winners(xs) == {e \in Range(xs) : \A d \in Range(xs) : Count(xs, e) >= Count(xs, d)}

(* max() returns the first greatest element in the iteration order of set(xs), *)
(* which follows the string hashes of the process (randomised per process):    *)
(* any winner is possible, and the same list gives the same answer for the     *)
(* life of the process.  An order fixes the answer for each list of L and      *)
(* agrees with the answers already given.                                      *)
Orders(L) ==
    {f \in [L -> UNION {Range(xs) : xs \in L}] :
        \A xs \in L : /\ f[xs] \in Winners(xs)
                      /\ xs \in DOMAIN hashPick => f[xs] = hashPick[xs]}

\* the mutant of Remember in which the iteration order of a set is drawn anew at
\* every call
RememberNothing(order) == hashPick

Remember(order) == [xs \in DOMAIN hashPick \cup DOMAIN order |->
                        IF xs \in DOMAIN order THEN order[xs] ELSE hashPick[xs]]

\* the suffix one observed name contributes to the layer's suffix list
SuffixOfName(layer, name) ==
    IF layer = "entity" THEN
        IF EndsWith(name, "Entity") THEN <<"Entity">>
        ELSE IF EndsWith(name, "Model") THEN <<"Model">>
        ELSE <<"">>
    ELSE IF layer = "repository" THEN
        IF EndsWith(name, "Repository") THEN <<"Repository">>
        ELSE IF EndsWith(name, "Dao") THEN <<"Dao">>
        ELSE IF EndsWith(name, "Mapper") THEN <<"Mapper">>
        ELSE <<>>
    ELSE IF layer = "service" THEN
        IF EndsWith(name, "ServiceImpl") THEN <<"ServiceImpl">>
        ELSE IF EndsWith(name, "Service") THEN <<"Service">>
        ELSE <<>>
    ELSE IF layer = "controller" THEN
        IF EndsWith(name, "Controller") THEN <<"Controller">>
        ELSE IF EndsWith(name, "Resource") THEN <<"Resource">>
        ELSE <<>>
    ELSE <<>>

RECURSIVE Suffixes(_, _)
Suffixes(layer, naming) ==
    IF naming = <<>> THEN <<>>
    ELSE SuffixOfName(layer, Head(naming)) \o Suffixes(layer, Tail(naming))

SuffixLayers == {"entity", "repository", "service", "controller"}

\* the suffix lists _infer_project_conventions takes the most common element of
SuffixLists(project_info) ==
    {Suffixes(l, project_info.layer_patterns[l].naming) : l \in SuffixLayers} \ {<<>>}

\* project_conventions after _infer_project_conventions(project_info)
infer_project_conventions(project_info, order) ==
    LET suffix(l, old) ==
            LET suffixes == Suffixes(l, project_info.layer_patterns[l].naming) IN
            IF suffixes # <<>> THEN order[suffixes] ELSE old
    IN  [project_info.project_conventions EXCEPT
            !.entity_suffix = suffix("entity", @),
            !.repository_suffix = suffix("repository", @),
            !.service_suffix = suffix("service", @),
            !.controller_suffix = suffix("controller", @)]

\* the leading parts on which all the split packages agree
RECURSIVE CommonParts(_, _)
CommonParts(base_packages, i) ==
    IF /\ \A parts \in base_packages : i <= Len(parts)
       /\ Cardinality({other[i] : other \in base_packages}) = 1
    THEN <<(CHOOSE parts \in base_packages : TRUE)[i]>> \o CommonParts(base_packages, i + 1)
    ELSE <<>>

MinCommonParts == 2

\* the mutant of resolve_base_package that accepts a prefix of any length
resolve_base_package_any_prefix(project_info) ==
    IF project_info.existing_packages = <<>> THEN project_info.base_package
    ELSE LET base_packages == {Split(pkg, ".") : pkg \in Range(project_info.existing_packages)}
             common_parts == CommonParts(base_packages, 1)
         IN  IF Len(common_parts) >= 1
             THEN Join(common_parts, ".")
             ELSE project_info.base_package

\* base_package after the common-prefix step of _analyze_project_structure
resolve_base_package(project_info) ==
    IF project_info.existing_packages = <<>> THEN project_info.base_package
    ELSE LET base_packages == {Split(pkg, ".") : pkg \in Range(project_info.existing_packages)}
             common_parts == CommonParts(base_packages, 1)
         IN  IF Len(common_parts) >= MinCommonParts
             THEN Join(common_parts, ".")
             ELSE project_info.base_package

\* the mutant of get_layer_directory whose default omits the package path
get_layer_directory_flat(layer, project_info, package_name, order) ==
    IF project_info.layer_patterns[layer].dirs # <<>>
    THEN order[project_info.layer_patterns[layer].dirs]
    ELSE layer

get_layer_directory(layer, project_info, package_name, order) ==
    LET dirs == project_info.layer_patterns[layer].dirs IN
    IF dirs # <<>> THEN order[dirs]
    ELSE Replace(package_name, ".", "/") \o "/" \o layer

get_class_suffix(layer, project_info) ==
    LET conventions == project_info.project_conventions IN
    IF layer = "entity" THEN conventions.entity_suffix
    ELSE IF layer = "repository" THEN conventions.repository_suffix
    ELSE IF layer = "service" THEN conventions.service_suffix
    ELSE IF layer = "controller" THEN conventions.controller_suffix
    ELSE ""

-----------------------------------------------------------------------------
(* Template emitter.  A unit's text is the sequence of its lines; of each      *)
(* literal template the package line, the annotations, the type declaration   *)
(* and the field declarations are kept, method bodies and imports are left out. *)

\* dict.get(key, default)
Get(d, key, default) == IF key \in DOMAIN d THEN d[key] ELSE default

RECURSIVE EntityFieldLines(_)
EntityFieldLines(fields) ==
    IF fields = <<>> THEN <<>>
    ELSE LET field_name == Get(Head(fields), "name", "field")
             field_type == Get(Head(fields), "type", "String")
         IN  <<"    @Column(name = \"" \o field_name \o "\")",
               "    private " \o field_type \o " " \o field_name \o ";">>
             \o EntityFieldLines(Tail(fields))

generate_entity_class(entity_name, fields, package_name) ==
    <<"package " \o package_name \o ".entity;",
      "@Entity",
      "@Table(name = \"" \o Lower(entity_name) \o "s\")",
      "public class " \o entity_name \o " {",
      "    @Id",
      "    @GeneratedValue(strategy = GenerationType.IDENTITY)",
      "    private Long id;">>
    \o EntityFieldLines(fields)
    \o <<"    @Column(name = \"created_at\")",
         "    private LocalDateTime createdAt;",
         "    @Column(name = \"updated_at\")",
         "    private LocalDateTime updatedAt;",
         "    @PrePersist",
         "    @PreUpdate",
         "}">>

generate_repository_interface(entity_name, package_name) ==
    <<"package " \o package_name \o ".repository;",
      "import " \o package_name \o ".entity." \o entity_name \o ";",
      "@Repository",
      "public interface " \o entity_name \o "Repository extends JpaRepository<"
          \o entity_name \o ", Long> {",
      "    @Query(\"SELECT e FROM " \o entity_name \o " e WHERE e.createdAt >= :startDate\")",
      "    @Query(\"SELECT COUNT(e) FROM " \o entity_name \o " e\")",
      "}">>

generate_service_class(entity_name, package_name) ==
    <<"package " \o package_name \o ".service;",
      "@Service",
      "@Transactional",
      "public class " \o entity_name \o "Service {",
      "    @Autowired",
      "}">>

generate_controller_class(entity_name, package_name) ==
    <<"package " \o package_name \o ".controller;",
      "@RestController",
      "@RequestMapping(\"/api/" \o Lower(entity_name) \o "s\")",
      "@CrossOrigin(origins = \"*\")",
      "public class " \o entity_name \o "Controller {",
      "    @Autowired",
      "    @GetMapping",
      "    @PostMapping",
      "}">>

\* the mutant of RequestFieldLines that marks every field not-null
RequestFieldLinesAllNotNull(field_name, field_type) ==
    <<"    @NotNull(message = \"" \o field_name \o " cannot be null\")",
      "    private " \o field_type \o " " \o field_name \o ";">>

\* the validation annotations and the declaration of one field of the request DTO
RequestFieldLines(field_name, field_type) ==
    IF field_type = "String"
    THEN <<"    @NotBlank(message = \"" \o field_name \o " cannot be blank\")",
           "    @Size(max = 255, message = \"" \o field_name \o " cannot exceed 255 characters\")",
           "    private " \o field_type \o " " \o field_name \o ";">>
    ELSE <<"    @NotNull(message = \"" \o field_name \o " cannot be null\")",
           "    private " \o field_type \o " " \o field_name \o ";">>

RECURSIVE RequestFields(_)
RequestFields(fields) ==
    IF fields = <<>> THEN <<>>
    ELSE RequestFieldLines(Get(Head(fields), "name", "field"),
                           Get(Head(fields), "type", "String"))
         \o RequestFields(Tail(fields))

generate_request_dto(entity_name, fields, package_name) ==
    <<"package " \o package_name \o ".dto.request;",
      "public class Create" \o entity_name \o "Request {">>
    \o RequestFields(fields)
    \o <<"    public Create" \o entity_name \o "Request() {}",
         "}">>

RECURSIVE ResponseFields(_)
ResponseFields(fields) ==
    IF fields = <<>> THEN <<>>
    ELSE <<"    private " \o Get(Head(fields), "type", "String") \o " "
              \o Get(Head(fields), "name", "field") \o ";">>
         \o ResponseFields(Tail(fields))

generate_response_dto(entity_name, fields, package_name) ==
    <<"package " \o package_name \o ".dto.response;",
      "public class " \o entity_name \o "Response {",
      "    private Long id;">>
    \o ResponseFields(fields)
    \o <<"    private LocalDateTime createdAt;",
         "    private LocalDateTime updatedAt;",
         "    public {entity_name}Response() {{}}",
         "}">>

Unit(layer, filename, content) == [layer |-> layer, filename |-> filename, content |-> content]

\* the mutant of generated_files that emits one more DTO per field
generated_files_per_field(entity_name, fields, package_name) ==
    <<Unit("entity", entity_name \o ".java",
           generate_entity_class(entity_name, fields, package_name)),
      Unit("repository", entity_name \o "Repository.java",
           generate_repository_interface(entity_name, package_name)),
      Unit("service", entity_name \o "Service.java",
           generate_service_class(entity_name, package_name)),
      Unit("controller", entity_name \o "Controller.java",
           generate_controller_class(entity_name, package_name)),
      Unit("dto/request", "Create" \o entity_name \o "Request.java",
           generate_request_dto(entity_name, fields, package_name)),
      Unit("dto/response", entity_name \o "Response.java",
           generate_response_dto(entity_name, fields, package_name))>>
    \o [i \in 1..Len(fields) |->
          Unit("dto/request", "Update" \o entity_name \o "Request.java",
               generate_request_dto(entity_name, <<fields[i]>>, package_name))]

\* generated_files of handle_generate_crud_module, in the order the dict is filled
generated_files(entity_name, fields, package_name) ==
    <<Unit("entity", entity_name \o ".java",
           generate_entity_class(entity_name, fields, package_name)),
      Unit("repository", entity_name \o "Repository.java",
           generate_repository_interface(entity_name, package_name)),
      Unit("service", entity_name \o "Service.java",
           generate_service_class(entity_name, package_name)),
      Unit("controller", entity_name \o "Controller.java",
           generate_controller_class(entity_name, package_name)),
      Unit("dto/request", "Create" \o entity_name \o "Request.java",
           generate_request_dto(entity_name, fields, package_name)),
      Unit("dto/response", entity_name \o "Response.java",
           generate_response_dto(entity_name, fields, package_name))>>

-----------------------------------------------------------------------------
(* The trees and the requests explored *)

MaxFiles == 3       \* files of the existing tree, besides pom.xml
MaxFields == 2      \* fields of a request (function-level specifications)

ProjectRoot == "/ws/proj"

SrcRoot == "/ws/proj/src/main/java"

JavaFile(path, content) == [path |-> SrcRoot \o "/" \o path, content |-> content]

\* the files an existing tree is drawn from
Pool ==
    <<JavaFile("com/acme/app/entity/User.java",
        <<"package com.acme.app.entity;", "", "@Entity", "  public class User {",
          "    @Id", "}">>),
      JavaFile("com/acme/app/repository/OrderRepository.java",
        <<"package com.acme.app.repository;", "@Repository",
          "public interface OrderRepository extends JpaRepository<Order, Long> {", "}">>),
      JavaFile("com/acme/app/repository/jpa/OrderRepository.java",
        <<"package com.acme.app.repository.jpa;",
          "public interface OrderRepository<T> {", "}">>),
      JavaFile("com/acme/app/repository/legacy/OrderDao.java",
        <<"package com.acme.app.repository.legacy;", "@Mapper", "@Component",
          "public class OrderDao {", "}">>),
      JavaFile("com/acme/app/service/OrderManager.java",
        <<"package com.acme.app.service;", "@Service",
          "public class OrderManager {", "    @Autowired", "}">>),
      JavaFile("com/acme/app/controller/v2/OrderResource.java",
        <<"package com.acme.app.controller.v2;", "@RestController",
          "@RequestMapping(\"/api/orders\")", "public class OrderResource {", "}">>),
      JavaFile("com/other/batch/JobRunner.java",
        <<"package com.other.batch;", "public class JobRunner {", "}">>),
      JavaFile("com/example/dto",
        <<"not a directory">>)>>

Trees == {S \in SUBSET (1..Len(Pool)) : Cardinality(S) <= MaxFiles}

\* the disk holding the files S of a pool, and pom.xml for a maven project
TreeFrom(pool, S, maven) ==
    LET paths == {pool[i].path : i \in S} \cup (IF maven THEN {ProjectRoot \o "/pom.xml"} ELSE {})
    IN  [files |-> [p \in paths |->
                      IF \E i \in S : pool[i].path = p
                      THEN pool[CHOOSE i \in S : pool[i].path = p].content
                      ELSE <<"<project/>">>],
         dirs |-> SelfAndAncestors(ProjectRoot)
                  \cup UNION {SelfAndAncestors(Parent(p)) : p \in paths}]

Tree(S, maven) == TreeFrom(Pool, S, maven)

\* a second pool: a service whose file is not UTF-8, three services in two
\* directories, the write blocker, a source file in the project root, and a type
\* of no layer whose fields carry persistence and validation annotations
WalkPool ==
    <<JavaFile("com/acme/app/service/CafeService.java",
        <<"package com.acme.app.service;", "@Service",
          "public class Caf" \o BadByte \o "Service {", "}">>),
      Pool[5],
      JavaFile("com/acme/app/service/BillingService.java",
        <<"package com.acme.app.service;", "@Service",
          "public class BillingService {", "}">>),
      JavaFile("com/acme/app/service/impl/OrderServiceImpl.java",
        <<"package com.acme.app.service.impl;", "@Service",
          "public class OrderServiceImpl {", "}">>),
      Pool[8],
      [path |-> ProjectRoot \o "/Main.java",
       content |-> <<"public class Main {", "}">>],
      JavaFile("com/acme/app/core/Audit.java",
        <<"package com.acme.app.core;", "public class Audit {", "    @Id", "    @NotNull",
          "    private Long id;", "}">>)>>

WalkTrees ==
    {TreeFrom(WalkPool, S, maven) :
        S \in {T \in SUBSET (1..Len(WalkPool)) : Cardinality(T) <= MaxFiles},
        maven \in BOOLEAN}

\* the arguments of the tools/call requests explored
Requests ==
    {[entity_name |-> "Invoice",
      fields |-> <<[name |-> "amount", type |-> "BigDecimal"]>>,
      project_path |-> ProjectRoot,
      package_name |-> "com.acme.billing"],
     [entity_name |-> "Order",
      fields |-> <<[name |-> "title", type |-> "String"], [name |-> "qty", type |-> "Integer"]>>,
      project_path |-> ProjectRoot],
     [entity_name |-> "Order",
      fields |-> <<[name |-> "note"]>>,
      project_path |-> ProjectRoot,
      package_name |-> ""]}

NoInfo == InitialProjectInfo(None)

\* no response has been built yet
NoResponse == [status |-> "none"]

NoDisk == [files |-> <<>>, dirs |-> {}]

NoHist == [recorded |-> <<>>, before |-> NoDisk, again |-> FALSE,
           first |-> [saved |-> <<>>, fs |-> NoDisk], input |-> <<>>, orm |-> "unknown"]

-----------------------------------------------------------------------------
(* The server handling generate_crud_module requests, one at a time *)

Init ==
    /\ pc = "idle"
    /\ \E S \in Trees, maven \in BOOLEAN : fs = Tree(S, maven)
    /\ req = <<>>
    /\ pkg_name = None
    /\ info = NoInfo
    /\ todo = {}
    /\ units = <<>>
    /\ placed = 0
    /\ saved = <<>>
    /\ hashPick = <<>>
    /\ served = 0
    /\ resp = NoResponse
    /\ hist = NoHist
    /\ fin = <<>>
    /\ fout = <<>>
    /\ procs = <<>>

\* the directories os.walk(project_root) can report first among those holding java files
FirstJavaDirs(disk, project_root) ==
    LET java_dirs == {Parent(p) : p \in JavaFilesUnder(disk, project_root)} IN
    {d \in java_dirs : \A a \in java_dirs : a = d \/ ~IsUnder(d, a)}

\* the values src_main_java can take
SrcMainJava(disk, project_root) ==
    IF \/ Exists(disk, PathJoin(project_root, "pom.xml"))
       \/ Exists(disk, PathJoin(project_root, "build.gradle"))
       \/ Exists(disk, PathJoin(project_root, "build.gradle.kts"))
       \/ FirstJavaDirs(disk, project_root) = {}
    THEN {PathJoin(project_root, "src/main/java")}
    ELSE {PathJoin(Parent(d), "src/main/java") : d \in FirstJavaDirs(disk, project_root)}

\* the mutant of new_project_info that goes on from what the last request learned
new_project_info_kept(project_path, last) ==
    IF last.project_root = project_path THEN last ELSE InitialProjectInfo(project_path)

\* the project_info a request starts from: a new dict, whatever the last request learned
new_project_info(project_path, last) == InitialProjectInfo(project_path)

\* handle_generate_crud_module reads its arguments and calls
\* _analyze_project_structure, here up to the start of the walk
StartHandling(r) ==
    /\ LET project_path == Get(r, "project_path", ".") IN
       \E src \in SrcMainJava(fs, project_path) :
          /\ info' = [new_project_info(project_path, info) EXCEPT
                        !.has_maven = Exists(fs, PathJoin(project_path, "pom.xml")),
                        !.has_gradle = \/ Exists(fs, PathJoin(project_path, "build.gradle"))
                                       \/ Exists(fs, PathJoin(project_path, "build.gradle.kts")),
                        !.src_main_java = src]
          /\ IF Exists(fs, src)
             THEN todo' = JavaFilesUnder(fs, src) /\ pc' = "walk"
             ELSE todo' = {} /\ pc' = "emit"
    /\ req' = r
    /\ pkg_name' = Get(r, "package_name", None)
    /\ units' = <<>>
    /\ placed' = 0
    /\ saved' = <<>>
    /\ hist' = [NoHist EXCEPT !.before = fs, !.input = hist.input]
    /\ UNCHANGED <<fs, hashPick>>

\* a generate_crud_module request arrives, the first of the process
Analyze(r) ==
    /\ pc = "idle"
    /\ served = 0
    /\ StartHandling(r)
    /\ UNCHANGED <<served, resp, fin, fout>>
    /\ UNCHANGED procs

\* the walk visits one more java file, in whatever order the directory listing gives
Learn(java_file) ==
    /\ pc = "walk"
    /\ java_file \in todo
    /\ info' = learn_from_java_file(java_file, fs.files[java_file], info)
    /\ todo' = todo \ {java_file}
    /\ hist' = [hist EXCEPT
                  !.recorded =
                      [f \in DOMAIN @ \cup {java_file} |->
                          IF f = java_file THEN RecordedInto(fs.files[java_file]) ELSE @[f]],
                  !.orm = IF @ = "unknown" THEN info'.framework_info.orm ELSE @]
    /\ UNCHANGED <<pc, fs, req, pkg_name, units, placed, saved, hashPick, served, resp, fin, fout>>
    /\ UNCHANGED procs

\* the walk is over: _infer_project_conventions, then the common package prefix
Infer ==
    /\ pc = "walk"
    /\ todo = {}
    /\ \E order \in Orders(SuffixLists(info)) :
          /\ info' = [info EXCEPT
                        !.project_conventions = infer_project_conventions(info, order),
                        !.base_package = resolve_base_package(info)]
          /\ hashPick' = Remember(order)
    /\ pc' = "emit"
    /\ UNCHANGED <<fs, req, pkg_name, todo, units, placed, saved, served, resp, hist, fin, fout>>
    /\ UNCHANGED procs

\* the mutant of package_name_used that always takes the inferred base package
package_name_inferred(given, project_info) == project_info.base_package

\* "if not package_name: package_name = project_info.get('base_package', ...)"
package_name_used(given, project_info) ==
    IF given \in {None, ""} THEN project_info.base_package ELSE given

\* handle_generate_crud_module from "if not package_name" to the six generated files
Emit ==
    /\ pc = "emit"
    /\ pkg_name' = package_name_used(pkg_name, info)
    /\ units' = generated_files(Get(req, "entity_name", ""), Get(req, "fields", <<>>),
                                pkg_name')
    /\ pc' = "save"
    /\ UNCHANGED <<fs, req, info, todo, placed, saved, hashPick, served, resp, hist, fin, fout>>
    /\ UNCHANGED procs

\* _save_files_to_learned_structure starts: src_main_java.mkdir(parents, exist_ok)
SaveBegin ==
    /\ pc = "save"
    /\ IF MkdirFails(fs, info.src_main_java)
       THEN /\ pc' = "error"
            /\ fs' = place_failure(fs, hist.before)
            /\ resp' = [raised |-> MkdirError(fs, info.src_main_java)]
       ELSE /\ pc' = "place"
            /\ fs' = Mkdir(fs, info.src_main_java)
            /\ resp' = resp
    /\ placed' = 0
    /\ saved' = <<>>
    /\ UNCHANGED <<req, pkg_name, info, todo, units, hashPick, served, hist, fin, fout>>
    /\ UNCHANGED procs

\* one turn of the loop over generated_files: directory, mkdir, write, path
PlaceUnit ==
    /\ pc = "place"
    /\ placed < Len(units)
    /\ LET unit == units[placed + 1]
           dto == unit.layer \in {"dto/request", "dto/response"}
           main_layer == IF dto THEN "dto" ELSE unit.layer
       IN  \E order \in Orders({info.layer_patterns[main_layer].dirs} \ {<<>>}) :
             LET layer_dir == get_layer_directory(main_layer, info, pkg_name, order)
                 layer_path == IF dto
                               THEN PathJoin(PathJoin(info.src_main_java, layer_dir),
                                             Split(unit.layer, "/")[2])
                               ELSE PathJoin(info.src_main_java, layer_dir)
                 file_path == PathJoin(layer_path, unit.filename)
                 relative_path == RelativeTo(file_path, info.project_root)
             IN  /\ hashPick' = Remember(order)
                 /\ IF MkdirFails(fs, layer_path)
                    THEN /\ pc' = "error"
                         /\ fs' = place_failure(fs, hist.before)
                         /\ resp' = [raised |-> MkdirError(fs, layer_path)]
                         /\ UNCHANGED <<placed, saved>>
                    ELSE IF OpenWFails(Mkdir(fs, layer_path), file_path)
                    THEN /\ pc' = "error"
                         /\ fs' = place_failure(Mkdir(fs, layer_path), hist.before)
                         /\ resp' = [raised |-> OpenWError(file_path)]
                         /\ UNCHANGED <<placed, saved>>
                    ELSE /\ fs' = WriteFile(Mkdir(fs, layer_path), file_path, unit.content)
                         /\ saved' = Append(saved, IF relative_path = ValueError
                                                   THEN file_path ELSE relative_path)
                         /\ placed' = placed + 1
                         /\ pc' = pc
                         /\ resp' = resp
    /\ UNCHANGED <<req, pkg_name, info, todo, units, served, hist, fin, fout>>
    /\ UNCHANGED procs

\* the result of handle_generate_crud_module goes out: main prints the response
Respond ==
    /\ pc = "place"
    /\ placed = Len(units)
    /\ resp' = [status |-> "success", files |-> saved, project_info |-> info,
                package_name |-> pkg_name]
    /\ fout' = Append(fout, resp')
    /\ served' = served + 1
    /\ pc' = "idle"
    /\ UNCHANGED <<fs, req, pkg_name, info, todo, units, placed, saved, hashPick, hist, fin>>
    /\ UNCHANGED procs

ErrorCode == -32000

\* the JSON-RPC error object of an exception
ErrorResponse(message) == [error |-> [code |-> ErrorCode, message |-> message]]

\* handle_request turns the exception into a JSON-RPC error, which main prints
RespondError ==
    /\ pc = "error"
    /\ resp' = ErrorResponse(resp.raised)
    /\ fout' = Append(fout, resp')
    /\ served' = served + 1
    /\ pc' = "idle"
    /\ UNCHANGED <<fs, req, pkg_name, info, todo, units, placed, saved, hashPick, hist, fin>>
    /\ UNCHANGED procs

Next ==
    \/ \E r \in Requests : Analyze(r)
    \/ \E java_file \in todo : Learn(java_file)
    \/ Infer
    \/ Emit
    \/ SaveBegin
    \/ PlaceUnit
    \/ Respond
    \/ RespondError

Spec == Init /\ [][Next]_vars

\* the same server on the trees of the second pool
InitWalk ==
    /\ pc = "idle"
    /\ fs \in WalkTrees
    /\ req = <<>>
    /\ pkg_name = None
    /\ info = NoInfo
    /\ todo = {}
    /\ units = <<>>
    /\ placed = 0
    /\ saved = <<>>
    /\ hashPick = <<>>
    /\ served = 0
    /\ resp = NoResponse
    /\ hist = NoHist
    /\ fin = <<>>
    /\ fout = <<>>
    /\ procs = <<>>

SpecWalk == InitWalk /\ [][Next]_vars

\* the placer is called again with the same generated_files, project_info, package_name
PlaceAgain ==
    /\ pc = "place"
    /\ placed = Len(units)
    /\ ~hist.again
    /\ hist' = [hist EXCEPT !.again = TRUE, !.first = [saved |-> saved, fs |-> fs]]
    /\ pc' = "save"
    /\ UNCHANGED <<fs, req, pkg_name, info, todo, units, placed, saved, hashPick, served,
                   resp, fin, fout>>
    /\ UNCHANGED procs

NextPlaceTwice == Next \/ PlaceAgain

SpecPlaceTwice == Init /\ [][NextPlaceTwice]_vars

-----------------------------------------------------------------------------
(* The loop of main over the lines of standard input *)

SeqsUpTo(S, n) == UNION {[1..k -> S] : k \in 0..n}

MaxLines == 2       \* lines on standard input before it ends

CrudCall(arguments) ==
    "{\"method\": \"tools/call\", \"params\": {\"name\": \"generate_crud_module\", "
    \o "\"arguments\": {" \o arguments \o "}}}"

OrderFieldsText == "\"fields\": [{\"name\": \"title\", \"type\": \"String\"}]"

ProjectPathText == "\"project_path\": \"/ws/proj\""

OrderFields == <<[name |-> "title", type |-> "String"]>>

ToolsCall(name, arguments) ==
    [type |-> "dict",
     value |-> [method |-> "tools/call", params |-> [name |-> name, arguments |-> arguments]]]

\* the lines explored, each with the value json.loads gives for it
Documents ==
    <<[text |-> "[]", value |-> [type |-> "list"]],
      [text |-> "{\"method\": \"ping\"}",
       value |-> [type |-> "dict", value |-> [method |-> "ping"]]],
      [text |-> "{\"method\": \"tools/call\", \"params\": {\"name\": \"format_code\", "
                \o "\"arguments\": {}}}",
       value |-> ToolsCall("format_code", <<>>)],
      [text |-> CrudCall("\"entity_name\": \"Order\", " \o OrderFieldsText \o ", "
                         \o ProjectPathText),
       value |-> ToolsCall("generate_crud_module",
                    [entity_name |-> "Order", fields |-> OrderFields,
                     project_path |-> ProjectRoot])],
      [text |-> CrudCall(OrderFieldsText \o ", " \o ProjectPathText),
       value |-> ToolsCall("generate_crud_module",
                    [fields |-> OrderFields, project_path |-> ProjectRoot])]>>

\* the text of a tools/call request for the tool of that name
ToolCallText(name, arguments) ==
    "{\"method\": \"tools/call\", \"params\": {\"name\": \"" \o name \o "\", "
    \o "\"arguments\": {" \o arguments \o "}}}"

\* more lines, with their values: calls of generate_entity and of tools whose
\* names are those of other methods of the server
DispatchDocuments ==
    <<[text |-> ToolCallText("generate_entity",
                             "\"entity_name\": \"Order\", " \o OrderFieldsText),
       value |-> ToolsCall("generate_entity",
                    [entity_name |-> "Order", fields |-> OrderFields])],
      [text |-> ToolCallText("default_tool", "\"a\": \"b\""),
       value |-> ToolsCall("default_tool", [a |-> "b"])],
      [text |-> ToolCallText("request", ""),
       value |-> ToolsCall("request", <<>>)],
      [text |-> ToolCallText("request", "\"method\": \"ping\""),
       value |-> ToolsCall("request", [method |-> "ping"])],
      [text |-> ToolCallText("request",
                    "\"method\": \"tools/call\", \"params\": {\"name\": \"format_code\"}"),
       value |-> ToolsCall("request",
                    [method |-> "tools/call", params |-> [name |-> "format_code"]])]>>

AllDocuments == Documents \o DispatchDocuments

JSONDecodeError == [type |-> "JSONDecodeError"]

\* the mutant of json_loads that takes a text that is no JSON for a string
json_loads_lenient(text) ==
    IF \E i \in 1..Len(AllDocuments) : AllDocuments[i].text = text
    THEN AllDocuments[CHOOSE i \in 1..Len(AllDocuments) : AllDocuments[i].text = text].value
    ELSE [type |-> "str"]

\* json.loads on the texts explored: a document of the table, or JSONDecodeError
json_loads(text) ==
    IF \E i \in 1..Len(AllDocuments) : AllDocuments[i].text = text
    THEN AllDocuments[CHOOSE i \in 1..Len(AllDocuments) : AllDocuments[i].text = text].value
    ELSE JSONDecodeError

\* the lines standard input is drawn from: the documents, surrounded by blanks or not,
\* a line that is no JSON and a blank line
Lines ==
    {Documents[i].text : i \in 1..Len(Documents) \ {4}}
    \cup {"  " \o Documents[4].text \o " ", "{oops", "  "}

\* the trees the loop is started on: none, an entity and a mapper, a write blocker
LoopTrees == {Tree(S, TRUE) : S \in {{}, {1, 4}, {8}}}

InitLoop ==
    /\ pc = "idle"
    /\ fs \in LoopTrees
    /\ req = <<>>
    /\ pkg_name = None
    /\ info = NoInfo
    /\ todo = {}
    /\ units = <<>>
    /\ placed = 0
    /\ saved = <<>>
    /\ hashPick = <<>>
    /\ served = 0
    /\ resp = NoResponse
    /\ fin \in SeqsUpTo(Lines, MaxLines)
    /\ fout = <<>>
    /\ hist = [NoHist EXCEPT !.input = fin]
    /\ procs = <<>>

\* the tools tools/list names
Tools == {"generate_crud_module", "generate_entity"}

\* the names n for which the server object has an attribute handle_<n>
Handlers == {"request", "default_tool", "generate_crud_module", "generate_entity"}

\* what handle_default_tool returns
DefaultToolResult(tool_name, arguments) ==
    [status |-> "success", tool |-> tool_name, arguments |-> arguments]

\* the lines of the simplified entity of handle_generate_entity
RECURSIVE SimpleFieldLines(_)
SimpleFieldLines(fields) ==
    IF fields = <<>> THEN <<>>
    ELSE <<"    @Column(name = \"" \o Get(Head(fields), "name", "field") \o "\")",
           "    private " \o Get(Head(fields), "type", "String") \o " "
               \o Get(Head(fields), "name", "field") \o ";">>
         \o SimpleFieldLines(Tail(fields))

handle_generate_entity(arguments) ==
    LET entity_name == Get(arguments, "entity_name", "")
        fields == Get(arguments, "fields", <<>>)
    IN  [status |-> "success",
         entity_code |->
            <<"package com.example.entity;",
              "@Entity",
              "@Table(name = \"" \o Lower(entity_name) \o "s\")",
              "public class " \o entity_name \o " {",
              "    @Id",
              "    @GeneratedValue(strategy = GenerationType.IDENTITY)",
              "    private Long id;">>
            \o SimpleFieldLines(fields) \o <<"}">>,
         entity_name |-> entity_name]

\* str(e) of the TypeError of handle_default_tool called with one argument
MissingArgument ==
    "handle_default_tool() missing 1 required positional argument: 'arguments'"

\* the result of a tools/call that is a response of handle_request itself
ResponseAsResult(response) == [response |-> response]

\* "if hasattr(self, f'handle_{tool_name}'): getattr(...)(arguments) else
\* handle_default_tool(tool_name, arguments)", for the tools that answer at once;
\* inner is what handle_request answers to the arguments
call_tool(tool_name, arguments, inner) ==
    IF tool_name \notin Handlers THEN DefaultToolResult(tool_name, arguments)
    ELSE IF tool_name = "request" THEN ResponseAsResult(inner)
    ELSE IF tool_name = "default_tool" THEN ErrorResponse(MissingArgument)
    ELSE handle_generate_entity(arguments)

\* the response of handle_request to a request that is answered at once: an
\* error object, or the result of the tool in place of the response that holds it
RECURSIVE handle_request(_)
handle_request(request) ==
    LET method == Get(request, "method", None)
        params == Get(request, "params", <<>>)
        tool_name == Get(params, "name", None)
        arguments == Get(params, "arguments", <<>>)
    IN  IF method # "tools/call" THEN ErrorResponse("Unknown method: " \o method)
        ELSE call_tool(tool_name, arguments,
                       IF tool_name = "request" THEN handle_request(arguments) ELSE <<>>)

\* what an attribute lookup of .get on a value that is no dict raises
AttributeError(type) == "'" \o type \o "' object has no attribute 'get'"

\* one turn of the loop of main: readline, json.loads(line.strip()), handle_request
\* and the print of its response; a generate_crud_module call goes on step by step
ReadLine ==
    /\ pc = "idle"
    /\ fin # <<>>
    /\ fin' = Tail(fin)
    /\ LET request == json_loads(Strip(Head(fin))) IN
       IF request = JSONDecodeError
       THEN UNCHANGED <<pc, fs, req, pkg_name, info, todo, units, placed, saved, hashPick,
                        served, resp, hist, fout>>
       ELSE IF request.type # "dict"
       THEN /\ resp' = ErrorResponse(AttributeError(request.type))
            /\ fout' = Append(fout, resp')
            /\ served' = served + 1
            /\ UNCHANGED <<pc, fs, req, pkg_name, info, todo, units, placed, saved, hashPick,
                           hist>>
       ELSE LET method == Get(request.value, "method", None)
                params == Get(request.value, "params", <<>>)
            IN  IF method = "tools/call" /\ Get(params, "name", None) = "generate_crud_module"
                THEN /\ StartHandling(Get(params, "arguments", <<>>))
                     /\ UNCHANGED <<served, resp, fout>>
                ELSE /\ resp' = handle_request(request.value)
                     /\ fout' = Append(fout, resp')
                     /\ served' = served + 1
                     /\ UNCHANGED <<pc, fs, req, pkg_name, info, todo, units, placed, saved,
                                    hashPick, hist>>
    /\ UNCHANGED procs

\* readline returns '' at the end of the input: break
EndOfInput ==
    /\ pc = "idle"
    /\ fin = <<>>
    /\ pc' = "exit"
    /\ UNCHANGED <<fs, req, pkg_name, info, todo, units, placed, saved, hashPick, served,
                   resp, hist, fin, fout>>
    /\ UNCHANGED procs

\* between two requests somebody removes a source file of the project
RemoveFile(java_file) ==
    /\ pc = "idle"
    /\ served > 0
    /\ fin # <<>>
    /\ java_file \in JavaFilesUnder(fs, ProjectRoot)
    /\ \E i \in 1..Len(Pool) : Pool[i].path = java_file
    /\ fs' = [fs EXCEPT !.files = [q \in DOMAIN @ \ {java_file} |-> @[q]]]
    /\ UNCHANGED <<pc, req, pkg_name, info, todo, units, placed, saved, hashPick, served,
                   resp, hist, fin, fout>>
    /\ UNCHANGED procs

\* the loop is explored on a file system that lists a directory in one fixed order
Listed(files) == IF files = {} THEN {} ELSE {CHOOSE java_file \in files : TRUE}

NextLoop ==
    \/ ReadLine
    \/ EndOfInput
    \/ \E java_file \in DOMAIN fs.files : RemoveFile(java_file)
    \/ \E java_file \in Listed(todo) : Learn(java_file)
    \/ Infer
    \/ Emit
    \/ SaveBegin
    \/ PlaceUnit
    \/ Respond
    \/ RespondError

SpecLoop == InitLoop /\ [][NextLoop]_vars

\* the loop fed with calls of every tool name explored, on a project without sources
DispatchLines ==
    {DispatchDocuments[i].text : i \in 1..Len(DispatchDocuments)} \cup {Documents[3].text}

InitDispatch ==
    /\ pc = "idle"
    /\ fs \in {Tree({}, maven) : maven \in BOOLEAN}
    /\ req = <<>>
    /\ pkg_name = None
    /\ info = NoInfo
    /\ todo = {}
    /\ units = <<>>
    /\ placed = 0
    /\ saved = <<>>
    /\ hashPick = <<>>
    /\ served = 0
    /\ resp = NoResponse
    /\ fin \in SeqsUpTo(DispatchLines, MaxLines)
    /\ fout = <<>>
    /\ hist = [NoHist EXCEPT !.input = fin]
    /\ procs = <<>>

NextDispatch == ReadLine \/ EndOfInput

SpecDispatch == InitDispatch /\ [][NextDispatch]_vars

\* the loop is not stopped from outside: as long as it has not ended it goes on
\* taking steps (weak fairness of NextLoop, which is enabled in every state
\* but those of pc = "exit")
FairLoop == SpecLoop /\ ([]<>(pc = "exit") \/ []<><<NextLoop>>_vars)

-----------------------------------------------------------------------------
(* Function-level specifications: the classifier and the emitter applied to   *)
(* inputs drawn from bounded sets                                             *)

MaxAnnotations == 2     \* annotations of a classified type

\* the server's variables, at rest
Quiet ==
    /\ fs = NoDisk
    /\ req = <<>>
    /\ pkg_name = None
    /\ info = NoInfo
    /\ todo = {}
    /\ units = <<>>
    /\ placed = 0
    /\ saved = <<>>
    /\ hashPick = <<>>
    /\ served = 0
    /\ resp = NoResponse
    /\ hist = NoHist
    /\ procs = <<>>

QuietVars == <<fs, req, pkg_name, info, todo, units, placed, saved, hashPick, served, resp, hist>>

Namespaces ==
    {"com.acme.app.repository.user", "com.acme.Model.x", "com.acme.app.core",
     "com.acme.webapp", "com.acme.services.entity", "com.acme.favorites", "org.tools",
     "com.acme.api.Response"}

TypeNames ==
    {"UserDao", "User", "OrderServiceImpl", "OrderEntity", "PageVO", "AccountResource",
     "CreateOrderRequest"}

AnnotationTokens == {"@Entity", "@Service", "@RestController", "@Mapper", "@Data"}

InitClassify ==
    /\ pc = "classify"
    /\ fin \in [namespace : Namespaces, type_name : TypeNames,
                annotations : SeqsUpTo(AnnotationTokens, MaxAnnotations)]
    /\ fout = None
    /\ Quiet

Classify ==
    /\ pc = "classify"
    /\ fout' = identify_layer(fin.namespace, fin.type_name, fin.annotations)
    /\ pc' = "classified"
    /\ UNCHANGED <<fin>>
    /\ UNCHANGED QuietVars
    /\ UNCHANGED procs

SpecClassify == InitClassify /\ [][Classify]_vars

EntityNames == {"Invoice", "Order", ""}

FieldChoices ==
    {[name |-> "amount", type |-> "BigDecimal"],
     [name |-> "title", type |-> "String"],
     [name |-> "qty", type |-> "Integer"],
     [name |-> "note"],
     [type |-> "string"]}

PackageNames == {"com.acme.billing", "com.example"}

InitEmit ==
    /\ pc = "emit"
    /\ fin \in [entity_name : EntityNames, fields : SeqsUpTo(FieldChoices, MaxFields),
                package_name : PackageNames]
    /\ fout = None
    /\ Quiet

EmitUnits ==
    /\ pc = "emit"
    /\ fout' = generated_files(fin.entity_name, fin.fields, fin.package_name)
    /\ pc' = "emitted"
    /\ UNCHANGED <<fin>>
    /\ UNCHANGED QuietVars
    /\ UNCHANGED procs

SpecEmit == InitEmit /\ [][EmitUnits]_vars

\* the resolver applied to the observations of one layer, twice: in the same
\* server process or in another one, whose string hashes are not the same

MaxObserved == 2    \* directories, and type names, observed for the layer

ObservedDirs ==
    {"com/acme/app/repository", "com/acme/app/repository/jpa", "com/acme/app/service"}

ObservedNames == {"OrderRepository", "OrderDao", "OrderService", "OrderServiceImpl"}

\* the lists the aggregator builds hold no element twice
NoRepeat(xs) == Cardinality(Range(xs)) = Len(xs)

\* project_info with the observations fin of one layer
Observed(obs) ==
    [NoInfo EXCEPT !.layer_patterns[obs.layer] =
        [dirs |-> obs.dirs, naming |-> obs.naming, annotations |-> <<>>]]

InitResolve ==
    /\ pc = "resolve"
    /\ fin \in {obs \in [layer : {"repository", "service"},
                         dirs : SeqsUpTo(ObservedDirs, MaxObserved),
                         naming : SeqsUpTo(ObservedNames, MaxObserved)] :
                    NoRepeat(obs.dirs) /\ NoRepeat(obs.naming)}
    /\ fout = <<>>
    /\ fs = NoDisk
    /\ req = <<>>
    /\ pkg_name = None
    /\ info = NoInfo
    /\ todo = {}
    /\ units = <<>>
    /\ placed = 0
    /\ saved = <<>>
    /\ hashPick = <<>>
    /\ served = 0
    /\ resp = NoResponse
    /\ hist = NoHist
    /\ procs = <<>>

\* _infer_project_conventions and _get_layer_directory on the observations
Resolve ==
    /\ pc = "resolve"
    /\ LET project_info == Observed(fin) IN
       \E order \in Orders(SuffixLists(project_info) \cup ({fin.dirs} \ {<<>>})) :
          /\ fout' = Append(fout,
                [dir |-> get_layer_directory(fin.layer, project_info, "com.example", order),
                 suffix |-> get_class_suffix(fin.layer,
                               [project_info EXCEPT !.project_conventions =
                                   infer_project_conventions(project_info, order)])])
          /\ hashPick' = Remember(order)
    /\ pc' = "resolved"
    /\ UNCHANGED <<fs, req, pkg_name, info, todo, units, placed, saved, served, resp, hist, fin>>
    /\ UNCHANGED procs

\* the same process resolves the same observations again
ResolveAgain ==
    /\ pc = "resolved"
    /\ Len(fout) < 2
    /\ pc' = "resolve"
    /\ UNCHANGED <<fs, req, pkg_name, info, todo, units, placed, saved, hashPick, served, resp,
                   hist, fin, fout>>
    /\ UNCHANGED procs

\* the server is started anew: the hashes of strings are drawn again
Restart ==
    /\ pc = "resolved"
    /\ Len(fout) < 2
    /\ hashPick' = <<>>
    /\ hist' = [hist EXCEPT !.again = TRUE]
    /\ pc' = "resolve"
    /\ UNCHANGED <<fs, req, pkg_name, info, todo, units, placed, saved, served, resp, fin, fout>>
    /\ UNCHANGED procs

NextResolve == Resolve \/ ResolveAgain \/ Restart

SpecResolve == InitResolve /\ [][NextResolve]_vars

-----------------------------------------------------------------------------
(* Claims *)

\* the keyword sets of the namespace rule, per layer
NamespaceKeywords ==
    [entity |-> {"entity", "model", "domain"},
     repository |-> {"repository", "dao", "mapper"},
     service |-> {"service"},
     controller |-> {"controller", "web", "rest"},
     dto |-> {"dto", "vo", "request", "response"}]

\* the positions in Layers of the layers a keyword of which the namespace contains
NamespaceMatches(namespace) ==
    {i \in 1..Len(Layers) :
        \E k \in NamespaceKeywords[Layers[i]] : Contains(Lower(namespace), k)}

\* C1: whenever the namespace contains (case-insensitively) a keyword of some
\* layer, the classifier returns the first such layer, the same one it returns for
\* that namespace with no type name and no annotations; the namespace
\* com.acme.app.repository.user with type UserDao and no annotation is repository.
C1_NamespaceRuleFirst ==
    (pc = "classified" /\ NamespaceMatches(fin.namespace) # {}) =>
        /\ fout = Layers[CHOOSE i \in NamespaceMatches(fin.namespace) :
                            \A j \in NamespaceMatches(fin.namespace) : i <= j]
        /\ fout = identify_layer(fin.namespace, "", <<>>)
        /\ (fin.namespace = "com.acme.app.repository.user" /\ fin.type_name = "UserDao"
            /\ fin.annotations = <<>>) => fout = "repository"

C1_Witness ==
    /\ pc = "classified"
    /\ fin = [namespace |-> "com.acme.app.repository.user", type_name |-> "UserDao",
              annotations |-> <<>>]
    /\ fout = "repository"

\* C7: one request yields exactly 6 units whatever the number of fields, named
\* E.java, ERepository.java, EService.java, EController.java, CreateERequest.java
\* and EResponse.java and tagged entity, repository, service, controller,
\* dto/request, dto/response in that order.
C7_FixedFanOut ==
    pc = "emitted" =>
        /\ Len(fout) = 6
        /\ [i \in 1..Len(fout) |-> fout[i].filename] =
              <<fin.entity_name \o ".java",
                fin.entity_name \o "Repository.java",
                fin.entity_name \o "Service.java",
                fin.entity_name \o "Controller.java",
                "Create" \o fin.entity_name \o "Request.java",
                fin.entity_name \o "Response.java">>
        /\ [i \in 1..Len(fout) |-> fout[i].layer] =
              <<"entity", "repository", "service", "controller", "dto/request",
                "dto/response">>

C7_Witness ==
    /\ pc = "emitted"
    /\ Len(fin.fields) >= 2
    /\ fin.entity_name = "Invoice"
    /\ Len(fout) = 6

\* the positions of the field declarations in a unit's text
Declarations(lines) ==
    SelectSeq([i \in 1..Len(lines) |-> i],
              LAMBDA i : StartsWith(Strip(lines[i]), "private "))

\* the names of the annotations on the lines directly above line i, bottom-up
RECURSIVE AnnotationsAbove(_, _)
AnnotationsAbove(lines, i) ==
    IF i > 1 /\ StartsWith(Strip(lines[i - 1]), "@")
    THEN AnnotationsAbove(lines, i - 1) \o <<Split(Strip(lines[i - 1]), "(")[1]>>
    ELSE <<>>

\* C10: in the create-request DTO a field of type exactly String carries
\* @NotBlank and @Size and no @NotNull, a field of any other type carries exactly
\* @NotNull; in the entity and the response DTO every requested field carries the
\* same annotations whatever its type (@Column, and none).
C10_FieldValidation ==
    pc = "emitted" =>
        \A k \in 1..Len(fin.fields) :
            LET field_type == Get(fin.fields[k], "type", "String")
                entity == fout[1].content
                request == fout[5].content
                response == fout[6].content
            IN  /\ Len(Declarations(request)) = Len(fin.fields)
                /\ AnnotationsAbove(request, Declarations(request)[k]) =
                      IF field_type = "String" THEN <<"@NotBlank", "@Size">>
                      ELSE <<"@NotNull">>
                /\ AnnotationsAbove(entity, Declarations(entity)[k + 1]) = <<"@Column">>
                /\ AnnotationsAbove(response, Declarations(response)[k + 1]) = <<>>

C10_Witness ==
    /\ pc = "emitted"
    /\ \E i, j \in 1..Len(fin.fields) :
          /\ Get(fin.fields[i], "type", "String") = "String"
          /\ Get(fin.fields[j], "type", "String") \notin {"String", "string"}
          /\ AnnotationsAbove(fout[5].content, Declarations(fout[5].content)[i])
                = <<"@NotBlank", "@Size">>
          /\ AnnotationsAbove(fout[5].content, Declarations(fout[5].content)[j])
                = <<"@NotNull">>


\* the learning pass of the request is over and the profile is resolved
Learned == pc = "emit"

\* what the scan of a visited file reads as its package and its type name
PackageOf(java_file) == Scan(hist.before.files[java_file], <<>>).package_name

TypeNameOf(java_file) == Scan(hist.before.files[java_file], <<>>).class_name

Visited == DOMAIN hist.recorded

\* C2: a step of the learning pass changes the observations of at most one
\* layer, and the file it visits is recorded into at most one layer, in every
\* order of visit.
C2_SingleLabel ==
    [][(pc = "walk" /\ pc' = "walk") =>
          \A java_file \in todo \ todo' :
              Cardinality({l \in LayerSet : info'.layer_patterns[l] # info.layer_patterns[l]}
                          \cup hist'.recorded[java_file]) <= 1]_vars

C2_Witness ==
    /\ pc = "walk"
    /\ Cardinality(Visited) >= 2
    /\ \E f, g \in Visited : hist.recorded[f] = {"entity"} /\ hist.recorded[g] = {"repository"}
    /\ info.layer_patterns["entity"].dirs # <<>>
    /\ info.layer_patterns["repository"].dirs # <<>>

\* the files of layer l whose type name carries suffix s
FilesWithSuffix(l, s) ==
    {f \in Visited : l \in hist.recorded[f] /\ SuffixOfName(l, TypeNameOf(f)) = <<s>>}

SuffixesSeen(l) ==
    {s \in {"", "Entity", "Model", "Repository", "Dao", "Mapper", "ServiceImpl", "Service",
            "Controller", "Resource"} : FilesWithSuffix(l, s) # {}}

\* C3 as claimed: the suffix resolved for a layer is one carried by the largest
\* number of classified files of that layer.
C3_SuffixMajorityOfFiles ==
    Learned =>
        \A l \in SuffixLayers :
            SuffixesSeen(l) # {} =>
                \A s \in SuffixesSeen(l) :
                    Cardinality(FilesWithSuffix(l, get_class_suffix(l, info)))
                        >= Cardinality(FilesWithSuffix(l, s))

\* the namespaces the visited files declare, split into segments
ObservedNamespaces == {Split(PackageOf(f), ".") : f \in {g \in Visited : PackageOf(g) # None}}

\* the lengths k such that all of N agree on their first k segments
CommonPrefixLengths(N) ==
    {k \in 0..8 : \A a \in N : Len(a) >= k /\ \A b \in N : SubSeq(a, 1, k) = SubSeq(b, 1, k)}

\* the longest common prefix of segments of a non-empty set of namespaces
LongestCommonPrefix(N) ==
    LET lengths == CommonPrefixLengths(N)
        k == CHOOSE n \in lengths : \A m \in lengths : m <= n
    IN  SubSeq(CHOOSE a \in N : TRUE, 1, k)

\* the base namespace the resolver should give for the namespaces N
ExpectedBase(N) ==
    IF N = {} THEN "com.example"
    ELSE LET prefix == LongestCommonPrefix(N) IN
         IF Len(prefix) >= 2 THEN Join(prefix, ".") ELSE "com.example"

\* C4: after the learning pass the base namespace is the longest common prefix
\* of segments of the namespaces observed when that prefix has at least 2
\* segments, and com.example otherwise (also when no namespace was observed);
\* from com.acme.app.entity, com.acme.app.service and com.acme.app.controller.v2
\* it is com.acme.app.
C4_BaseNamespace ==
    Learned =>
        LET N == ObservedNamespaces IN
        /\ info.base_package = ExpectedBase(N)
        /\ N = {<<"com", "acme", "app", "entity">>,
                <<"com", "acme", "app", "service">>,
                <<"com", "acme", "app", "controller", "v2">>}
              => info.base_package = "com.acme.app"

C4_Witness ==
    /\ Learned
    /\ ObservedNamespaces = {<<"com", "acme", "app", "entity">>,
                             <<"com", "acme", "app", "service">>,
                             <<"com", "acme", "app", "controller", "v2">>}
    /\ info.base_package = "com.acme.app"

\* the layer of the profile a unit is placed by
MainLayer(unit) == IF unit.layer \in {"dto/request", "dto/response"} THEN "dto" ELSE unit.layer

\* the path list entry of a file written at path p
Reported(p) == IF IsUnder(p, ProjectRoot) THEN SubSeq(p, Len(ProjectRoot) + 2, Len(p)) ELSE p

\* C5: a layer without directory observations gets the directory
\* <base namespace as path>/<layer>, the base namespace being the one the request
\* runs with, and the units of such a layer are written there (the DTO units in
\* its request and response subdirectories); on a tree without source files and
\* without package_name all five directories are com/example/<layer>.
C5_DefaultDirectory ==
    (pc = "place") =>
        /\ \A l \in LayerSet :
              info.layer_patterns[l].dirs = <<>> =>
                  get_layer_directory(l, info, pkg_name, <<>>) =
                      Join(Split(pkg_name, "."), "/") \o "/" \o l
        /\ \A k \in 1..placed :
              info.layer_patterns[MainLayer(units[k])].dirs = <<>> =>
                  saved[k] = Reported(info.src_main_java \o "/"
                                      \o Join(Split(pkg_name, "."), "/") \o "/"
                                      \o units[k].layer \o "/" \o units[k].filename)
        /\ (JavaFilesUnder(hist.before, ProjectRoot) = {}
            /\ Get(req, "package_name", "") = "") =>
              \A l \in LayerSet :
                  get_layer_directory(l, info, pkg_name, <<>>) = "com/example/" \o l

C5_Witness ==
    /\ pc = "place"
    /\ placed = 6
    /\ JavaFilesUnder(hist.before, ProjectRoot) = {}
    /\ Get(req, "package_name", "") = ""
    /\ saved[5] = "src/main/java/com/example/dto/request/CreateOrderRequest.java"

\* the hard per-layer default suffixes
HardDefaultSuffix ==
    [entity |-> "", repository |-> "Repository", service |-> "Service",
     controller |-> "Controller"]

\* C6 as claimed: a layer none of whose observed type names carries a
\* recognized suffix resolves to its hard default suffix, the entity layer to "".
C6_SuffixFallback ==
    Learned =>
        \A l \in SuffixLayers :
            (SuffixesSeen(l) \ {""} = {}) => get_class_suffix(l, info) = HardDefaultSuffix[l]

\* the placer has been called twice with the same arguments and has returned twice
PlacedTwice == pc = "place" /\ placed = Len(units) /\ hist.again

\* C8: the second of two placer calls in a row with the same units and profile
\* raises nothing, returns the path list of the first and leaves the files and
\* directories of the disk as the first left them.
C8_IdempotentOverwrite ==
    /\ hist.again => pc # "error"
    /\ PlacedTwice => saved = hist.first.saved /\ fs = hist.first.fs

C8_Witness ==
    /\ PlacedTwice
    /\ Len(saved) = 6
    /\ Cardinality(DOMAIN fs.files \ DOMAIN hist.before.files) = 6
    /\ \E l \in LayerSet : Len(info.layer_patterns[l].dirs) >= 2

InvoiceRequest ==
    [entity_name |-> "Invoice",
     fields |-> <<[name |-> "amount", type |-> "BigDecimal"]>>,
     project_path |-> ProjectRoot,
     package_name |-> "com.acme.billing"]

\* C9: on an empty project root the Invoice request writes exactly 6 files, one
\* per layer directory entity, repository, service, controller, dto/request,
\* dto/response under com/acme/billing/, and the create-request DTO marks amount
\* not-null.
C9_EndToEnd ==
    (pc = "place" /\ placed = Len(units) /\ DOMAIN hist.before.files = {}
     /\ req = InvoiceRequest) =>
        /\ Len(saved) = 6
        /\ Cardinality(DOMAIN fs.files) = 6
        /\ \A k \in 1..6 :
              /\ Contains(saved[k], "com/acme/billing/" \o units[k].layer \o "/"
                                    \o units[k].filename)
              /\ PathJoin(ProjectRoot, saved[k]) \in DOMAIN fs.files
        /\ [k \in 1..6 |-> units[k].layer] =
              <<"entity", "repository", "service", "controller", "dto/request",
                "dto/response">>
        /\ LET dto == fs.files[PathJoin(ProjectRoot, saved[5])] IN
           \E i \in 2..Len(dto) :
              /\ dto[i] = "    private BigDecimal amount;"
              /\ StartsWith(Strip(dto[i - 1]), "@NotNull")

C9_Witness ==
    /\ pc = "place"
    /\ placed = 6
    /\ DOMAIN hist.before.files = {}
    /\ req = InvoiceRequest
    /\ saved[1] = "src/main/java/com/acme/billing/entity/Invoice.java"


-----------------------------------------------------------------------------
(* Claims on the loop of main *)

\* the lines already read from standard input
Consumed == SubSeq(hist.input, 1, Len(hist.input) - Len(fin))

\* the arguments of the call being handled name no entity
NamesNoEntity == Get(req, "entity_name", "") = ""

Handling == pc \notin {"idle", "exit"}

\* C11 as claimed: a generation request without an entity name (absent or
\* empty) is rejected before any file-system activity: while it is handled the
\* disk stays as it was when the request arrived, and it never gets as far as
\* placing units.
C11_MalformedRejected ==
    (Handling /\ NamesNoEntity) => (fs = hist.before /\ pc \notin {"save", "place"})

\* the texts that are JSON, whatever surrounds them
JsonTexts ==
    {"[]", "{\"method\": \"ping\"}",
     "{\"method\": \"tools/call\", \"params\": {\"name\": \"format_code\", \"arguments\": {}}}"}
    \cup {l \in Lines : Contains(l, "generate_crud_module")}

IsJson(line) == line \in JsonTexts

\* the message of the exception a line raises as soon as it is dispatched
RaisesAtOnce ==
    [l \in {"[]", "{\"method\": \"ping\"}"} |->
        IF l = "[]" THEN "'list' object has no attribute 'get'" ELSE "Unknown method: ping"]

\* the default DTO directory is taken by a regular file: every generation raises
Blocked == IsFile(fs, SrcRoot \o "/com/example/dto")

BlockedMessage ==
    "[Errno 20] Not a directory: '" \o SrcRoot \o "/com/example/dto/request'"

IsError(response, message) ==
    /\ DOMAIN response = {"error"}
    /\ response.error.code = -32000
    /\ response.error.message = message

\* one response per JSON line read so far (the one being handled excepted), in
\* the order of the lines, none for a line that is no JSON; the response of a
\* line whose handling raises is the error object with code -32000 and the
\* message of the exception; the loop has ended only if the input has
C13_Answers ==
    LET lines == SelectSeq(Consumed, IsJson)
        done == IF Handling THEN Len(lines) - 1 ELSE Len(lines)
    IN  /\ Len(fout) = done
        /\ \A i \in 1..done :
              IF lines[i] \in DOMAIN RaisesAtOnce
              THEN IsError(fout[i], RaisesAtOnce[lines[i]])
              ELSE IF Contains(lines[i], "generate_crud_module") /\ Blocked
              THEN IsError(fout[i], BlockedMessage)
              ELSE "status" \in DOMAIN fout[i] /\ fout[i].status = "success"
        /\ pc = "exit" => fin = <<>>

\* C13: whatever the input lines are, a line that is no JSON gets no response
\* and is skipped, a request whose handling raises gets exactly one error
\* object with code -32000 and the message of the exception, every later JSON
\* line is still answered with exactly one response, and the loop goes on to
\* the end of the input, where it ends.
C13_LoopResilience == []C13_Answers /\ <>[](pc = "exit" /\ fin = <<>>)

C13_Witness ==
    /\ pc = "exit"
    /\ Len(hist.input) = 2
    /\ hist.input[1] = "{\"method\": \"ping\"}"
    /\ Contains(hist.input[2], "\"entity_name\": \"Order\"")
    /\ Len(fout) = 2
    /\ IsError(fout[1], "Unknown method: ping")
    /\ fout[2].status = "success"

\* the java files on the disk, under the source root
OnDisk == JavaFilesUnder(fs, SrcRoot)

\* the layers a file on the disk is recorded into, its directory, its type name
LayersOnDisk(java_file) == RecordedInto(fs.files[java_file])

\* C15: the profile a request works with is computed from the tree as it is on
\* the disk when the request runs: every directory, type name, namespace, ORM
\* signal and base namespace of the profile is supported by a file that is on
\* the disk now, whatever an earlier request of the same server learned.
C15_NoProfileCaching ==
    Learned =>
        /\ \A l \in LayerSet :
              /\ \A d \in Range(info.layer_patterns[l].dirs) :
                    \E f \in OnDisk : /\ l \in LayersOnDisk(f)
                                      /\ RelativeTo(Parent(f), SrcRoot) = d
              /\ \A n \in Range(info.layer_patterns[l].naming) :
                    \E f \in OnDisk : /\ l \in LayersOnDisk(f)
                                      /\ Scan(fs.files[f], <<>>).class_name = n
        /\ \A n \in Range(info.existing_packages) :
              \E f \in OnDisk : Scan(fs.files[f], <<>>).package_name = n
        /\ info.framework_info.orm # "unknown" =>
              \E f \in OnDisk :
                  /\ LayersOnDisk(f) # {}
                  /\ Range(Scan(fs.files[f], <<>>).annotations)
                        \cap {"@Entity", "@Table", "@Id", "@Mapper"} # {}
        /\ info.base_package =
              ExpectedBase({Split(n, ".") : n \in
                  {Scan(fs.files[f], <<>>).package_name : f \in OnDisk} \ {None}})
        /\ \A l \in SuffixLayers :
              \/ get_class_suffix(l, info) = get_class_suffix(l, NoInfo)
              \/ \E f \in OnDisk :
                    /\ l \in LayersOnDisk(f)
                    /\ SuffixOfName(l, Scan(fs.files[f], <<>>).class_name)
                          = <<get_class_suffix(l, info)>>

C15_Witness ==
    /\ Learned
    /\ served = 1
    /\ "project_info" \in DOMAIN resp
    /\ "User" \in Range(resp.project_info.layer_patterns["entity"].naming)
    /\ "User" \notin Range(info.layer_patterns["entity"].naming)
    /\ "Order" \in Range(info.layer_patterns["entity"].naming)

-----------------------------------------------------------------------------
(* Claims on the walk and on the placement *)

\* the text of the file cannot be decoded
Garbled(java_file) ==
    \E i \in 1..Len(hist.before.files[java_file]) :
        Contains(hist.before.files[java_file][i], "\\x")

Readable == {f \in Visited : ~Garbled(f)}

\* the layer the classifier gives a readable file, None without package or type name
LayerOfFile(java_file) ==
    LET scan == Scan(hist.before.files[java_file], <<>>) IN
    IF scan.package_name \in {None, ""} \/ scan.class_name \in {None, ""} THEN None
    ELSE identify_layer(scan.package_name, scan.class_name, scan.annotations)

FilesOfLayer(l) == {f \in Readable : LayerOfFile(f) = l}

DirOf(java_file) == RelativeTo(Parent(java_file), info.src_main_java)

\* C12: a file that cannot be read does not make the aggregation fail, and what
\* the walk has learned is exactly what the readable files contribute: the
\* directories, type names and annotations of each layer, the namespaces and the
\* base namespace are those of the tree without the unreadable file.
C12_SkipUnreadable ==
    Learned =>
        /\ \A l \in LayerSet :
              /\ Range(info.layer_patterns[l].dirs) = {DirOf(f) : f \in FilesOfLayer(l)}
              /\ Range(info.layer_patterns[l].naming) = {TypeNameOf(f) : f \in FilesOfLayer(l)}
              /\ Range(info.layer_patterns[l].annotations) =
                    UNION {Range(Scan(hist.before.files[f], <<>>).annotations) :
                              f \in FilesOfLayer(l)}
        /\ Range(info.existing_packages) = {PackageOf(f) : f \in Readable} \ {None}
        /\ info.base_package =
              ExpectedBase({Split(n, ".") : n \in {PackageOf(f) : f \in Readable} \ {None}})

C12_Witness ==
    /\ Learned
    /\ \E f \in Visited : Garbled(f)
    /\ info.layer_patterns["service"].naming = <<"OrderManager">>
    /\ info.existing_packages = <<"com.acme.app.service">>

\* the package_name the request supplies, "" when it supplies none
Supplied == Get(req, "package_name", "")

AsPath(package_name) == Join(Split(package_name, "."), "/")

\* C14: a request that supplies package_name is generated under it whatever the
\* tree holds: it is the package_name of the result, every unit declares a
\* package under it, and every layer without directory observations is placed
\* in <package_name as path>/<layer>.
C14_PackageOverride ==
    (Supplied # "" /\ req # <<>>) =>
        /\ pc \in {"save", "place", "error"} =>
              /\ pkg_name = Supplied
              /\ \A k \in 1..Len(units) :
                    StartsWith(units[k].content[1], "package " \o Supplied \o ".")
              /\ \A k \in 1..Len(saved) :
                    info.layer_patterns[MainLayer(units[k])].dirs = <<>> =>
                        saved[k] = Reported(info.src_main_java \o "/" \o AsPath(Supplied) \o "/"
                                            \o units[k].layer \o "/" \o units[k].filename)
        /\ (pc = "idle" /\ "package_name" \in DOMAIN resp) => resp.package_name = Supplied

C14_Witness ==
    /\ pc = "idle"
    /\ Supplied = "com.acme.billing"
    /\ "package_name" \in DOMAIN resp
    /\ resp.project_info.base_package = "com.acme.app"
    /\ resp.project_info.layer_patterns["entity"].dirs = <<>>
    /\ resp.files[1] = "src/main/java/com/acme/billing/entity/Invoice.java"

\* the file names of the six units of entity E, in emission order
UnitNames(E) ==
    <<E \o ".java", E \o "Repository.java", E \o "Service.java", E \o "Controller.java",
      "Create" \o E \o "Request.java", E \o "Response.java">>

\* C16: the list of written paths has one entry per unit written, in emission
\* order (entity, repository, service, controller, create-request DTO, response
\* DTO); an entry is relative to the project root when the file written lies
\* under it and is the absolute path otherwise; the result carries that list.
C16_PathList ==
    /\ pc = "place" =>
          /\ Len(saved) = placed
          /\ \A k \in 1..placed :
                LET written == IF StartsWith(saved[k], "/") THEN saved[k]
                               ELSE ProjectRoot \o "/" \o saved[k]
                IN  /\ EndsWith(saved[k], "/" \o UnitNames(Get(req, "entity_name", ""))[k])
                    /\ IsFile(fs, written)
                    /\ fs.files[written] = units[k].content
                    /\ StartsWith(saved[k], "/") <=> ~IsUnder(written, ProjectRoot)
    /\ (pc = "idle" /\ "files" \in DOMAIN resp) => (resp.files = saved /\ Len(saved) = 6)

C16_Witness ==
    /\ pc = "idle"
    /\ "files" \in DOMAIN resp
    /\ resp.files[1] = "/ws/src/main/java/com/example/entity/Order.java"
    /\ resp.files[6] = "/ws/src/main/java/com/example/dto/response/OrderResponse.java"

\* the path of the file an entry of the path list stands for
WrittenAt(entry) == IF StartsWith(entry, "/") THEN entry ELSE ProjectRoot \o "/" \o entry

\* C17: when the directory or the file of unit k cannot be written the call
\* ends in an error that reaches the caller as an error object, no unit from k
\* on is written, and the files of units 1..k-1 stay on the disk with their new
\* content: the disk differs from the one before the call in those k-1
\* files, new or overwritten, and in nothing else.
C17_NoRollback ==
    /\ pc = "error" =>
          /\ "raised" \in DOMAIN resp
          /\ placed < Len(units)
          /\ Len(saved) = placed
          /\ \A k \in 1..placed :
                /\ IsFile(fs, WrittenAt(saved[k]))
                /\ fs.files[WrittenAt(saved[k])] = units[k].content
          /\ \A q \in DOMAIN fs.files :
                \/ \E k \in 1..placed : q = WrittenAt(saved[k])
                \/ q \in DOMAIN hist.before.files /\ fs.files[q] = hist.before.files[q]
          /\ Cardinality({WrittenAt(saved[k]) : k \in 1..placed}) = placed
    /\ (pc = "idle" /\ served > 0 /\ placed < Len(units)) =>
          (DOMAIN resp = {"error"} /\ resp.error.code = -32000)

C17_Witness ==
    /\ pc = "idle"
    /\ DOMAIN resp = {"error"}
    /\ placed = 4
    /\ Cardinality(DOMAIN fs.files \ DOMAIN hist.before.files) = 4
    /\ IsFile(fs, SrcRoot \o "/com/example/controller/OrderController.java")

\* the directory of layer l holding the most classified files, the one met
\* first in the walk among equals
MostUsedDir(l) ==
    LET dirs == info.layer_patterns[l].dirs
        holds(d) == Cardinality({f \in FilesOfLayer(l) : DirOf(f) = d})
        best == {i \in 1..Len(dirs) : \A j \in 1..Len(dirs) : holds(dirs[i]) >= holds(dirs[j])}
    IN  dirs[CHOOSE i \in best : \A j \in best : i <= j]

\* C19 as claimed: the directory list of a layer has one entry per classified
\* file, and a unit of a layer with observations is written to the directory
\* holding the most classified files of the layer, the first met in the walk
\* among equals.
C19_DirectoryByFrequency ==
    /\ Learned =>
          \A l \in LayerSet : Len(info.layer_patterns[l].dirs) = Cardinality(FilesOfLayer(l))
    /\ pc = "place" =>
          \A k \in 1..placed :
              LET l == MainLayer(units[k]) IN
              info.layer_patterns[l].dirs # <<>> =>
                  StartsWith(saved[k], "src/main/java/" \o MostUsedDir(l) \o "/"
                                       \o (IF l = "dto" THEN Split(units[k].layer, "/")[2] \o "/"
                                           ELSE "")
                                       \o units[k].filename)

\* C20 as claimed: once a file has set the ORM signal to jpa or to mybatis, no
\* file visited later in the same pass changes it: at the end of the pass the
\* signal is the one the first file carrying a signal gave.
C20_OrmFirstMatchWins ==
    Learned => info.framework_info.orm = hist.orm

\* C18 as claimed: resolving the same observations of a layer twice gives the
\* same directory and the same suffix, also when several directories or
\* suffixes are equally frequent.
C18_ResolverDeterminism ==
    Len(fout) = 2 => fout[1] = fout[2]

-----------------------------------------------------------------------------
(* Claims on the framework signals and on the annotation rule *)

NoSignals == [orm |-> "unknown", web |-> "unknown", validation |-> "unknown"]

\* the framework signals the annotations and the text of one file carry
SignalsOf(java_file) ==
    analyze_framework_info(Scan(hist.before.files[java_file], <<>>).annotations,
                           hist.before.files[java_file], NoSignals)

\* C21 as claimed: every file the walk has read sets the ORM, web and validation
\* signals it carries, whether or not the classifier gave it a layer.
C21_SignalsOfEveryFile ==
    Learned =>
        \A java_file \in Readable :
            \A signal \in {"orm", "web", "validation"} :
                SignalsOf(java_file)[signal] # "unknown" =>
                    info.framework_info[signal] # "unknown"

\* the recognized type-name suffixes, of all layers
TypeNameSuffixes ==
    {"entity", "model", "repository", "dao", "mapper", "service", "serviceimpl",
     "controller", "resource", "dto", "vo", "request", "response"}

\* C23 as claimed: when the namespace contains no layer keyword and the type
\* name ends in no recognized suffix, an @Entity or @Table token anywhere in the
\* annotation list makes the file an entity, whatever the other tokens are and
\* wherever they stand.
C23_EntityAnnotationWins ==
    (/\ pc = "classified"
     /\ NamespaceMatches(fin.namespace) = {}
     /\ \A suffix \in TypeNameSuffixes : ~EndsWith(Lower(fin.type_name), suffix)
     /\ Range(fin.annotations) \cap {"@Entity", "@Table"} # {}) =>
        fout = "entity"

-----------------------------------------------------------------------------
(* Claims on the DTO directories and on repeated generation *)

\* the directories the placer can resolve for the dto layer
DtoDirs ==
    IF info.layer_patterns["dto"].dirs # <<>>
    THEN Range(info.layer_patterns["dto"].dirs)
    ELSE {AsPath(pkg_name) \o "/dto"}

\* the files the running call has created or given a new content
Touched == {p \in DOMAIN fs.files : p \notin DOMAIN hist.before.files
                                    \/ fs.files[p] # hist.before.files[p]}

\* C22: the create-request DTO and the response DTO are written to the
\* directories request and response, both direct children of one and the same
\* directory, which is a directory resolved for the dto layer (one of those
\* observed, or the default); no DTO unit is written anywhere else.
C22_DtoSubSplit ==
    (pc = "place" /\ placed = 6) =>
        \E d \in DtoDirs :
            LET request_file == info.src_main_java \o "/" \o d \o "/request/"
                                \o units[5].filename
                response_file == info.src_main_java \o "/" \o d \o "/response/"
                                 \o units[6].filename
            IN  /\ WrittenAt(saved[5]) = request_file
                /\ WrittenAt(saved[6]) = response_file
                /\ Parent(Parent(request_file)) = Parent(Parent(response_file))
                /\ Parent(request_file) # Parent(response_file)
                /\ fs.files[request_file] = units[5].content
                /\ fs.files[response_file] = units[6].content
                /\ \A p \in Touched :
                      (EndsWith(p, "/" \o units[5].filename) => p = request_file)
                      /\ (EndsWith(p, "/" \o units[6].filename) => p = response_file)

C22_Witness ==
    /\ pc = "place"
    /\ placed = 6
    /\ Len(info.layer_patterns["dto"].dirs) = 2
    /\ saved[5] = "src/main/java/com/example/dto/response/request/CreateOrderRequest.java"
    /\ saved[6] = "src/main/java/com/example/dto/response/response/OrderResponse.java"

\* C25 as claimed: the same request served twice in a row on a project that
\* held no source file returns the same path list both times, and the second
\* run creates no file that was not there after the first.
C25_RepeatStable ==
    (/\ pc = "idle"
     /\ Len(fout) = 2
     /\ Len(hist.input) = 2
     /\ hist.input[1] = hist.input[2]
     /\ "files" \in DOMAIN fout[1]
     /\ "files" \in DOMAIN fout[2]
     /\ fout[1].project_info.existing_packages = <<>>) =>
        /\ fout[2].files = fout[1].files
        /\ DOMAIN fs.files \subseteq DOMAIN hist.before.files

-----------------------------------------------------------------------------
(* Claims on where a request writes and on what the walk covers *)

\* C26 as claimed: every file a request creates or overwrites lies under the
\* requested project root and every path of the result is relative, with or
\* without pom.xml or build.gradle, also when Java files sit in the root itself.
C26_WriteContainment ==
    /\ req # <<>> => \A p \in Touched : IsUnder(p, Get(req, "project_path", "."))
    /\ (pc = "idle" /\ "files" \in DOMAIN resp) =>
          \A k \in 1..Len(resp.files) : ~StartsWith(resp.files[k], "/")

\* the package a generated unit declares
DeclaredPackage(unit) == Scan(unit.content, <<>>).package_name

\* C27 as claimed: every file a request has written lies, relative to the
\* source root, in the directory spelled by the package its content declares,
\* with learned layer directories as well as with a package_name override.
C27_PackageMatchesDirectory ==
    pc = "place" =>
        \A k \in 1..placed :
            RelativeTo(Parent(WrittenAt(saved[k])), info.src_main_java)
                = AsPath(DeclaredPackage(units[k]))

\* C28 as claimed: every readable Java file under the project root that declares
\* a package and a public type and is given a layer by the classifier has its
\* directory among the directories observed for that layer once the learning
\* pass is over, with or without pom.xml or build.gradle.
C28_LearningCoverage ==
    Learned =>
        \A java_file \in JavaFilesUnder(hist.before, info.project_root) :
            (~Garbled(java_file) /\ LayerOfFile(java_file) # None) =>
                \E d \in Range(info.layer_patterns[LayerOfFile(java_file)].dirs) :
                    PathJoin(info.src_main_java, d) = Parent(java_file)

\* the files the path list of the running call stands for
Returned == {WrittenAt(saved[k]) : k \in 1..Len(saved)}

\* C30: a call that has placed its six units has created or overwritten exactly
\* the six files whose paths it returns, each with the content of its unit;
\* every other file is there with the content it had before the call, no
\* directory of before the call is missing, and until the placer starts (the
\* whole learning pass and the emission) the disk is the one of before the call.
C30_Frame ==
    /\ (pc = "place" /\ placed = Len(units)) =>
          /\ Len(saved) = 6
          /\ Cardinality(Returned) = 6
          /\ \A k \in 1..6 : /\ IsFile(fs, WrittenAt(saved[k]))
                             /\ fs.files[WrittenAt(saved[k])] = units[k].content
          /\ Touched \subseteq Returned
          /\ \A p \in DOMAIN hist.before.files :
                /\ p \in DOMAIN fs.files
                /\ p \notin Returned => fs.files[p] = hist.before.files[p]
          /\ hist.before.dirs \subseteq fs.dirs
    /\ pc \in {"walk", "emit", "save"} => fs = hist.before

C30_Witness ==
    /\ pc = "place"
    /\ placed = 6
    /\ Cardinality(Touched) = 6
    /\ Cardinality(DOMAIN fs.files \ DOMAIN hist.before.files) = 5
    /\ \E p \in DOMAIN hist.before.files \ Returned : EndsWith(p, "/entity/User.java")
    /\ IsFile(fs, SrcRoot \o "/com/acme/app/entity/Order.java")

-----------------------------------------------------------------------------
(* Claim on the dispatch of tools/call *)

\* what the client sent on line i of the input: tool name and arguments
SentCall(i) ==
    LET text == Strip(hist.input[i])
        d == CHOOSE j \in 1..Len(AllDocuments) : AllDocuments[j].text = text
    IN  AllDocuments[d].value.value.params

\* C29 as claimed: a tools/call is answered by the handler of a tool that
\* tools/list names, or by the default handler, which only echoes the tool name
\* and the arguments; so every call of a name that is not listed gets the echo
\* of its name and arguments, and a call of generate_entity gets an entity.
C29_DispatchConfined ==
    (pc = "exit" /\ Len(fout) = Len(hist.input)) =>
        \A i \in 1..Len(fout) :
            LET tool_name == Get(SentCall(i), "name", None)
                arguments == Get(SentCall(i), "arguments", <<>>)
            IN  IF tool_name = "generate_entity"
                THEN /\ DOMAIN fout[i] = {"status", "entity_code", "entity_name"}
                     /\ fout[i].entity_name = Get(arguments, "entity_name", "")
                ELSE tool_name \notin Tools =>
                        fout[i] = [status |-> "success", tool |-> tool_name,
                                   arguments |-> arguments]

-----------------------------------------------------------------------------
(* Two server processes, each handling one generate_crud_module request for   *)
(* the same project root.  One process handles its requests one after the     *)
(* other (main awaits handle_request, and no handler yields before it is      *)
(* done), so two requests run side by side only in two processes.  Each       *)
(* system call of the placer is one step: mkdir, open, write-and-close.       *)

\* the bytes a text takes in its file: every line and its newline
RECURSIVE ByteLen(_)
ByteLen(content) ==
    IF content = <<>> THEN 0 ELSE Len(Head(content)) + 1 + ByteLen(Tail(content))

\* the part of a file's content that lies behind its first n bytes
RECURSIVE Behind(_, _)
Behind(content, n) ==
    IF content = <<>> \/ n = 0 THEN content
    ELSE IF n >= Len(Head(content)) + 1
    THEN Behind(Tail(content), n - Len(Head(content)) - 1)
    ELSE <<SubSeq(Head(content), n + 1, Len(Head(content)))>> \o Tail(content)

\* open(p, 'w'): the file is created, or truncated to no byte
Truncate(disk, p) == WriteFile(disk, p, <<>>)

\* f.write(content) and the close of the with block, on a file opened at offset
\* 0: the bytes of content replace the first bytes the file holds by now
WriteAtStart(disk, p, content) ==
    WriteFile(disk, p, content \o Behind(disk.files[p], ByteLen(content)))

\* the field lists of the two requests
TwoFields ==
    {OrderFields,
     <<[name |-> "title", type |-> "String"], [name |-> "qty", type |-> "Integer"]>>}

\* a process that has read its request, analysed the project, which holds no
\* source file, and generated its units: it is about to call the placer
Analysed(disk, r) ==
    LET project_path == Get(r, "project_path", ".")
        project_info ==
            [InitialProjectInfo(project_path) EXCEPT
                !.has_maven = Exists(disk, PathJoin(project_path, "pom.xml")),
                !.src_main_java = CHOOSE src \in SrcMainJava(disk, project_path) : TRUE]
        package_name == package_name_used(Get(r, "package_name", None), project_info)
    IN  [pc |-> "save", req |-> r, info |-> project_info, pkg_name |-> package_name,
         units |-> generated_files(Get(r, "entity_name", ""), Get(r, "fields", <<>>),
                                   package_name),
         placed |-> 0, saved |-> <<>>, raised |-> None,
         last |-> {}]       \* history: the files this process was the last to write

InitTwo ==
    /\ pc = "two"
    /\ fs \in {Tree({}, maven) : maven \in BOOLEAN}
    /\ \E f1 \in TwoFields, f2 \in TwoFields :
          procs = <<Analysed(fs, [entity_name |-> "Order", fields |-> f1,
                                  project_path |-> ProjectRoot]),
                    Analysed(fs, [entity_name |-> "Order", fields |-> f2,
                                  project_path |-> ProjectRoot])>>
    /\ req = <<>>
    /\ pkg_name = None
    /\ info = NoInfo
    /\ todo = {}
    /\ units = <<>>
    /\ placed = 0
    /\ saved = <<>>
    /\ hashPick = <<>>
    /\ served = 0
    /\ resp = NoResponse
    /\ hist = NoHist
    /\ fin = <<>>
    /\ fout = <<>>

\* the directory of the unit the process is at (no directory is observed in a
\* project without source file: _get_layer_directory takes its default)
LayerPathOf(proc) ==
    LET unit == proc.units[proc.placed + 1]
        dto == unit.layer \in {"dto/request", "dto/response"}
        layer_dir == get_layer_directory(IF dto THEN "dto" ELSE unit.layer, proc.info,
                                         proc.pkg_name, <<>>)
    IN  IF dto THEN PathJoin(PathJoin(proc.info.src_main_java, layer_dir),
                             Split(unit.layer, "/")[2])
        ELSE PathJoin(proc.info.src_main_java, layer_dir)

FilePathOf(proc) == PathJoin(LayerPathOf(proc), proc.units[proc.placed + 1].filename)

OneServerVars ==
    <<pc, req, pkg_name, info, todo, units, placed, saved, hashPick, served, resp, hist,
      fin, fout>>

\* src_main_java.mkdir(parents=True, exist_ok=True) of process p
SaveBeginOf(p) ==
    /\ procs[p].pc = "save"
    /\ IF MkdirFails(fs, procs[p].info.src_main_java)
       THEN /\ procs' = [procs EXCEPT ![p].pc = "error",
                            ![p].raised = MkdirError(fs, procs[p].info.src_main_java)]
            /\ fs' = fs
       ELSE /\ procs' = [procs EXCEPT ![p].pc = "mkdir"]
            /\ fs' = Mkdir(fs, procs[p].info.src_main_java)
    /\ UNCHANGED OneServerVars

\* layer_path.mkdir(parents=True, exist_ok=True) of process p
MkdirOf(p) ==
    /\ procs[p].pc = "mkdir"
    /\ IF MkdirFails(fs, LayerPathOf(procs[p]))
       THEN /\ procs' = [procs EXCEPT ![p].pc = "error",
                            ![p].raised = MkdirError(fs, LayerPathOf(procs[p]))]
            /\ fs' = fs
       ELSE /\ procs' = [procs EXCEPT ![p].pc = "open"]
            /\ fs' = Mkdir(fs, LayerPathOf(procs[p]))
    /\ UNCHANGED OneServerVars

\* open(file_path, 'w') of process p
OpenOf(p) ==
    /\ procs[p].pc = "open"
    /\ IF OpenWFails(fs, FilePathOf(procs[p]))
       THEN /\ procs' = [procs EXCEPT ![p].pc = "error",
                            ![p].raised = OpenWError(FilePathOf(procs[p]))]
            /\ fs' = fs
       ELSE /\ procs' = [procs EXCEPT ![p].pc = "write"]
            /\ fs' = Truncate(fs, FilePathOf(procs[p]))
    /\ UNCHANGED OneServerVars

\* f.write(content), the end of the with block and saved_files.append of process p
WriteOf(p) ==
    /\ procs[p].pc = "write"
    /\ LET proc == procs[p]
           file_path == FilePathOf(proc)
           relative_path == RelativeTo(file_path, proc.info.project_root)
       IN  /\ fs' = WriteAtStart(fs, file_path, proc.units[proc.placed + 1].content)
           /\ procs' = [q \in DOMAIN procs |->
                 IF q = p
                 THEN [proc EXCEPT
                         !.saved = Append(@, IF relative_path = ValueError
                                             THEN file_path ELSE relative_path),
                         !.placed = @ + 1,
                         !.pc = IF proc.placed + 1 < Len(proc.units) THEN "mkdir" ELSE "done",
                         !.last = @ \cup {file_path}]
                 ELSE [procs[q] EXCEPT !.last = @ \ {file_path}]]
    /\ UNCHANGED OneServerVars

NextTwo ==
    \E p \in 1..2 : SaveBeginOf(p) \/ MkdirOf(p) \/ OpenOf(p) \/ WriteOf(p)

SpecTwo == InitTwo /\ [][NextTwo]_vars

\* C24 as claimed: of two requests for the same entity placing side by side in
\* one project root neither fails, and once both are done every file they
\* collided on holds exactly the content of the request that wrote it last.
C24_LastWriterWins ==
    /\ \A p \in DOMAIN procs : procs[p].pc # "error"
    /\ (procs # <<>> /\ \A p \in DOMAIN procs : procs[p].pc = "done") =>
          \A p \in DOMAIN procs :
              \A k \in 1..Len(procs[p].saved) :
                  LET path == WrittenAt(procs[p].saved[k]) IN
                  /\ IsFile(fs, path)
                  /\ \E q \in DOMAIN procs : path \in procs[q].last
                  /\ path \in procs[p].last => fs.files[path] = procs[p].units[k].content

=============================================================================
